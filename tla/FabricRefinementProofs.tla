------------------------ MODULE FabricRefinementProofs ------------------------
(***************************************************************************)
(* Proofs that relate Fabric to what it implements and to what it          *)
(* abstracts. Across failed writes, crashes and recoveries, with durable   *)
(* commits, the image owns what memory owns, and every step of the runtime *)
(* is a step of the abstract owner of spectrum, or invisible to it,        *)
(* however far callers lag behind the clock; so two reservations come to   *)
(* own clashing spectrum by a renewal that comes late, and in no other     *)
(* way. The placement Fabric takes is the one the enumeration of           *)
(* Candidates selects.                                                     *)
(***************************************************************************)
EXTENDS FabricProofs

-----------------------------------------------------------------------------
(* Tables that own the same                                                *)

\* The records r and s own the same spectrum at the instant now, and for as
\* long from there on.
SameOwner(r, s, now) ==
  /\ LiveAt(r, now) <=> LiveAt(s, now)
  /\ LiveAt(r, now) => /\ r.domains = s.domains /\ r.guard = s.guard
                       /\ r.low = s.low /\ r.high = s.high
                       /\ r.expiresAt = s.expiresAt

Agree(t, u, now) == \A i \in Id : SameOwner(t[i], u[i], now)

\* Agreement is reflexive.
LEMMA AgreeReflexive == \A t, now : Agree(t, t, now)
BY DEF Agree, SameOwner

\* Agreement is symmetric.
LEMMA AgreeSymmetric ==
  ASSUME NEW t, NEW u, NEW now, Agree(t, u, now)
  PROVE  Agree(u, t, now)
BY DEF Agree, SameOwner

\* Agreement is transitive.
LEMMA AgreeTransitive ==
  ASSUME NEW t, NEW u, NEW v, NEW now, Agree(t, u, now), Agree(u, v, now)
  PROVE  Agree(t, v, now)
BY DEF Agree, SameOwner

\* Tables that agree own the same claims.
LEMMA AgreeOwned ==
  ASSUME NEW t, NEW u, NEW now, Agree(t, u, now)
  PROVE  OwnedAt(t, now) = OwnedAt(u, now)
<1>1. {j \in Id : LiveAt(t[j], now)} = {j \in Id : LiveAt(u[j], now)}
  BY DEF Agree, SameOwner
<1>2. \A i \in {j \in Id : LiveAt(t[j], now)} :
        /\ t[i].domains = u[i].domains /\ t[i].guard = u[i].guard
        /\ t[i].low = u[i].low /\ t[i].high = u[i].high
        /\ t[i].expiresAt = u[i].expiresAt
  BY DEF Agree, SameOwner
<1> QED
  BY <1>1, <1>2 DEF OwnedAt, ClaimOf

\* Tables that agree now agree at every later instant.
LEMMA AgreeLater ==
  ASSUME NEW t \in Table, NEW u \in Table, NEW now \in Nat, NEW later \in Nat,
         now <= later, Agree(t, u, now)
  PROVE  Agree(t, u, later)
<1> SUFFICES ASSUME NEW i \in Id
             PROVE  SameOwner(t[i], u[i], later)
  BY DEF Agree
<1>1. t[i].expiresAt \in Nat /\ u[i].expiresAt \in Nat
  BY DEF Table, Reservation
<1>2. /\ LiveAt(t[i], later) => LiveAt(t[i], now)
      /\ LiveAt(u[i], later) => LiveAt(u[i], now)
  BY <1>1 DEF LiveAt
<1>3. SameOwner(t[i], u[i], now)
  BY DEF Agree
<1>4. LiveAt(t[i], later) => LiveAt(u[i], later)
  BY <1>2, <1>3 DEF SameOwner, LiveAt
<1>5. LiveAt(u[i], later) => LiveAt(t[i], later)
  BY <1>2, <1>3 DEF SameOwner, LiveAt
<1> QED
  BY <1>2, <1>3, <1>4, <1>5 DEF SameOwner

\* A table in which every live record of another is kept as it was, and no
\* other is live, agrees with it.
LEMMA AgreeKept ==
  ASSUME NEW t, NEW u, NEW now,
         \A i \in Id : /\ LiveAt(u[i], now) <=> LiveAt(t[i], now)
                       /\ LiveAt(u[i], now) => u[i] = t[i]
  PROVE  Agree(u, t, now)
BY DEF Agree, SameOwner

-----------------------------------------------------------------------------
(* The image owns what memory owns                                         *)

\* The inductive invariant behind DurableOwnership. Before the first save
\* there is nothing in the image, which is what a new process starts from.
DurabilityInv ==
  /\ IndexInv
  /\ ~disk.present => disk.reservations = EmptyTable
  /\ Durable => Agree(reservations, disk.reservations, clock)

\* A mutation that stands is in the image as it is in memory; one that does
\* not must leave what memory owns as it was.
LEMMA PersistAgrees ==
  ASSUME DurabilityInv, clock' = clock, NEW stands \in Outcome, Persist(stands),
         ~stands => Agree(reservations', reservations, clock)
  PROVE  /\ ~disk'.present => disk'.reservations = EmptyTable
         /\ Durable => Agree(reservations', disk'.reservations, clock')
<1>1. CASE Durable /\ stands
  <2>1. disk'.present /\ disk'.reservations = reservations'
    BY <1>1 DEF Persist, ImageOf
  <2> QED
    BY <2>1, AgreeReflexive
<1>2. CASE ~(Durable /\ stands)
  <2>1. disk' = disk
    BY <1>2 DEF Persist
  <2> QED
    BY <1>2, <2>1, AgreeTransitive DEF DurabilityInv
<1> QED
  BY <1>1, <1>2

\* Pruning changes nothing that is owned.
LEMMA PruneAgrees ==
  ASSUME NEW t \in Table, NEW now
  PROVE  Agree(AfterPrune(t), t, now)
<1>1. \A i \in Id : /\ IsLiveState(AfterPrune(t)[i].state) <=> IsLiveState(t[i].state)
                    /\ IsLiveState(AfterPrune(t)[i].state) => AfterPrune(t)[i] = t[i]
  BY PruneKeepsLive
<1>2. \A i \in Id : /\ LiveAt(AfterPrune(t)[i], now) <=> LiveAt(t[i], now)
                    /\ LiveAt(AfterPrune(t)[i], now) => AfterPrune(t)[i] = t[i]
  BY <1>1 DEF LiveAt
<1> QED
  BY <1>2, AgreeKept

\* A commit that is taken back changes nothing that is owned.
LEMMA RolledBackAgrees ==
  ASSUME IndexInv, NEW q \in Request, NEW now \in Instants, NEW stands \in Outcome,
         AllocateCommit(q, now, stands), ~stands
  PROVE  Agree(reservations', reservations, clock)
<1> DEFINE t     == AfterPrune(reservations)
           index == IndexAfterPrune(requestIndex, reservations)
           n     == nextReservationId
           back  == RolledBack(q, now, t, index)
<1>1. now \in Nat /\ n \in Id /\ Placements(q, now) # {} /\ reservations' = back
  BY TypeFacts DEF AllocateCommit, Eligible, IndexInv
<1>2. /\ reservations[n].state = "None" /\ back[n] = NoReservation
      /\ \A i \in Id \ {n} :
           /\ IsLiveState(back[i].state) <=> IsLiveState(reservations[i].state)
           /\ IsLiveState(back[i].state) => back[i] = reservations[i]
  BY <1>1, InsertedLive DEF IndexInv, IdsFresh, Id
<1> HIDE DEF t, back
<1>3. ~IsLiveState(back[n].state) /\ ~IsLiveState(reservations[n].state)
  BY <1>2, NotLive DEF NoReservation
<1>4. \A i \in Id : /\ LiveAt(back[i], clock) <=> LiveAt(reservations[i], clock)
                    /\ LiveAt(back[i], clock) => back[i] = reservations[i]
  BY <1>2, <1>3 DEF LiveAt
<1> QED
  BY <1>1, <1>4, AgreeKept

\* allocate keeps the image in step with memory.
LEMMA AllocateDurable ==
  ASSUME DurabilityInv, Allocate
  PROVE  DurabilityInv'
<1>0. IndexInv'
  BY AllocateIndex DEF DurabilityInv
<1> PICK q \in Request :
      \/ AllocateReplay(q)
      \/ \E now \in Instants :
           \/ \E authorised \in BOOLEAN : AllocateRefused(q, now, authorised)
           \/ AllocateAbandoned(q, now)
           \/ \E stands \in Outcome : AllocateCommit(q, now, stands)
  BY DEF Allocate
<1>1. CASE AllocateReplay(q)
  BY <1>0, <1>1 DEF AllocateReplay, memory, DurabilityInv
<1>2. ASSUME NEW now \in Instants, NEW authorised \in BOOLEAN,
             AllocateRefused(q, now, authorised)
      PROVE  DurabilityInv'
  BY <1>0, <1>2 DEF AllocateRefused, DurabilityInv
<1>3. ASSUME NEW now \in Instants, AllocateAbandoned(q, now)
      PROVE  DurabilityInv'
  <2>1. reservations' = AfterPrune(reservations) /\ disk' = disk /\ clock' = clock
    BY <1>3 DEF AllocateAbandoned
  <2>2. Agree(reservations', reservations, clock)
    BY <2>1, PruneAgrees DEF DurabilityInv, IndexInv, TypeOK
  <2>3. Durable => Agree(reservations', disk'.reservations, clock')
    BY <2>1, <2>2, AgreeTransitive DEF DurabilityInv
  <2> QED
    BY <1>0, <2>1, <2>3 DEF DurabilityInv
<1>4. ASSUME NEW now \in Instants, NEW stands \in Outcome, AllocateCommit(q, now, stands)
      PROVE  DurabilityInv'
  <2>1. Persist(stands) /\ clock' = clock
    BY <1>4 DEF AllocateCommit
  <2>2. ~stands => Agree(reservations', reservations, clock)
    BY <1>4, RolledBackAgrees DEF DurabilityInv
  <2> QED
    BY <1>0, <2>1, <2>2, PersistAgrees DEF DurabilityInv
<1> QED
  BY <1>1, <1>2, <1>3, <1>4

\* renew, activate, deactivate and release keep the image in step with memory.
LEMMA OneReservationDurable ==
  ASSUME DurabilityInv, NEW i \in Id, OneReservation(i)
  PROVE  DurabilityInv'
<1>1. PICK now \in Instants, stands \in Outcome, r \in Reservation :
        Settle(i, r, now, stands)
  BY OneReservationSettles DEF DurabilityInv, IndexInv
<1>2. Persist(stands) /\ clock' = clock /\ (~stands => reservations' = reservations)
  BY <1>1 DEF Settle
<1>3. ~stands => Agree(reservations', reservations, clock)
  BY <1>2, AgreeReflexive
<1>4. IndexInv'
  BY OneReservationIndex DEF DurabilityInv
<1> QED
  BY <1>2, <1>3, <1>4, PersistAgrees DEF DurabilityInv

\* A sweep, undone or not, changes nothing that is owned: what it ends has
\* lapsed.
LEMMA SweepsAgree ==
  ASSUME TypeOK, Sweeps
  PROVE  /\ clock' = clock
         /\ Agree(reservations', reservations, clock)
         /\ \E stands \in Outcome : Persist(stands)
<1>1. PICK now \in Instants, stands \in Outcome :
        /\ UNCHANGED <<clock, nextReservationId>>
        /\ Persist(stands)
        /\ \A i \in Id :
             /\ IsLiveState(reservations'[i].state)
                  <=> IsLiveState(reservations[i].state) /\ i \notin Lapsed(reservations, now)
             /\ IsLiveState(reservations'[i].state) => reservations'[i] = reservations[i]
  BY SweepsEffect
<1>2. ASSUME NEW i \in Id, i \in Lapsed(reservations, now)
      PROVE  ~LiveAt(reservations[i], clock)
  <2>1. reservations[i].expiresAt \in Nat /\ now \in Nat /\ clock \in Nat /\ now <= clock
    BY TypeFacts DEF TypeOK, Table, Reservation, Instants
  <2>2. reservations[i].expiresAt <= now
    BY <1>2 DEF Lapsed
  <2> QED
    BY <2>1, <2>2 DEF LiveAt
<1>3. \A i \in Id : /\ LiveAt(reservations'[i], clock) <=> LiveAt(reservations[i], clock)
                    /\ LiveAt(reservations'[i], clock) => reservations'[i] = reservations[i]
  BY <1>1, <1>2 DEF LiveAt
<1> QED
  BY <1>1, <1>3, AgreeKept

\* Recovery owns what the image owns.
LEMMA RecoverAgrees ==
  ASSUME TypeOK, Recover
  PROVE  Agree(reservations', disk.reservations, clock)
<1>1. \A i \in Id : /\ disk.reservations[i] \in Reservation
                    /\ reservations'[i] = Demoted(disk.reservations[i])
  BY DEF Recover, TypeOK, Image, Table
<1> QED
  BY <1>1, DemotedClaim DEF Agree, SameOwner, LiveAt

\* The initial state and every step but a reset keep the image in step.
LEMMA InitDurability == Init => DurabilityInv
BY InitIndex, AgreeReflexive DEF Init, DurabilityInv, NoImage

\* Every step keeps memory and image in agreement.
LEMMA NextDurability ==
  ASSUME ~AllowReset
  PROVE  DurabilityInv /\ [Next]_vars => DurabilityInv'
<1> SUFFICES ASSUME DurabilityInv, [Next]_vars
             PROVE  DurabilityInv'
  OBVIOUS
<1>0. IndexInv' /\ TypeOK
  BY NextIndex DEF DurabilityInv, IndexInv
<1>1. CASE Allocate
  BY <1>1, AllocateDurable
<1>2. ASSUME NEW i \in Id, OneReservation(i)
      PROVE  DurabilityInv'
  BY <1>2, OneReservationDurable
<1>3. CASE Sweeps
  BY <1>0, <1>3, SweepsAgree, PersistAgrees DEF DurabilityInv
<1>4. CASE Save
  <2>1. disk'.present /\ disk'.reservations = reservations'
    BY <1>4 DEF Save, ImageOf, memory
  <2> QED
    BY <1>0, <2>1, AgreeReflexive DEF DurabilityInv
<1>5. CASE Recover
  <2>1. disk' = disk /\ clock' = clock
    BY <1>5 DEF Recover
  <2>2. Agree(reservations', disk.reservations, clock)
    BY <1>0, <1>5, RecoverAgrees
  <2> QED
    BY <1>0, <2>1, <2>2 DEF DurabilityInv
<1>6. CASE StartAfresh
  <2>1. ~disk.present /\ reservations' = EmptyTable /\ disk' = disk /\ clock' = clock
    BY <1>6 DEF StartAfresh, Emptied
  <2> QED
    BY <1>0, <2>1, AgreeReflexive DEF DurabilityInv
<1>7. CASE Reset
  BY <1>7 DEF Reset
<1>8. CASE Tick
  <2>1. reservations \in Table /\ disk.reservations \in Table
        /\ clock \in Nat /\ clock + 1 \in Nat /\ clock <= clock + 1
    BY <1>0 DEF TypeOK, Image
  <2>2. clock' = clock + 1 /\ reservations' = reservations /\ disk' = disk
    BY <1>8 DEF Tick, memory
  <2>3. Durable => Agree(reservations', disk'.reservations, clock')
    BY <2>1, <2>2, AgreeLater DEF DurabilityInv
  <2> QED
    BY <1>0, <2>2, <2>3 DEF DurabilityInv
<1>9. CASE UNCHANGED vars
  BY <1>0, <1>9 DEF vars, memory, DurabilityInv
<1> QED
  BY <1>1, <1>2, <1>3, <1>4, <1>5, <1>6, <1>7, <1>8, <1>9 DEF Next

\* With durable commits the image owns exactly what memory owns after every
\* call, whichever writes failed, whatever the table was pruned of and however
\* often the process was restarted, as long as no operator resets the runtime
\* under its state file.
THEOREM DurableOwnershipCorrect ==
  ASSUME ~AllowReset
  PROVE  Spec => []DurableOwnership
<1>1. DurabilityInv => DurableOwnership
  BY AgreeOwned DEF DurabilityInv, DurableOwnership
<1> QED
  BY <1>1, InitDurability, NextDurability, PTL DEF Spec

-----------------------------------------------------------------------------
(* The runtime as the abstract owner of spectrum                           *)

\* The claims of a table are those of its live records.
LEMMA OwnedMembers ==
  ASSUME NEW t, NEW now
  PROVE  /\ \A i \in Id : LiveAt(t[i], now) => ClaimOf(t[i], i) \in OwnedAt(t, now)
         /\ \A c \in OwnedAt(t, now) : \E i \in Id : LiveAt(t[i], now) /\ c = ClaimOf(t[i], i)
         /\ \A c \in OwnedAt(t, now) : c.id \in Id /\ LiveAt(t[c.id], now)
                                       /\ c = ClaimOf(t[c.id], c.id)
<1>1. \A r, i : ClaimOf(r, i).id = i
  BY DEF ClaimOf
<1>2. \A i \in Id : LiveAt(t[i], now) => ClaimOf(t[i], i) \in OwnedAt(t, now)
  BY DEF OwnedAt
<1>3. \A c \in OwnedAt(t, now) : \E i \in Id : LiveAt(t[i], now) /\ c = ClaimOf(t[i], i)
  BY DEF OwnedAt
<1> QED
  BY <1>1, <1>2, <1>3

\* The claims a table remembers are those of its lapsed records.
LEMMA EndedMembers ==
  ASSUME NEW t, NEW now
  PROVE  /\ \A i \in Id : IsLiveState(t[i].state) /\ t[i].expiresAt <= now
                            => ClaimOf(t[i], i) \in EndedAt(t, now)
         /\ \A c \in EndedAt(t, now) : \E i \in Id :
              IsLiveState(t[i].state) /\ t[i].expiresAt <= now /\ c = ClaimOf(t[i], i)
BY DEF EndedAt

\* The claims that have passed: those of lapsed records in memory and image.
Over == EndedAt(reservations, clock) \cup EndedAt(disk.reservations, clock)

\* Every live record of u is one of t, with the same claim.
Faded(u, t) ==
  \A i \in Id : IsLiveState(u[i].state) =>
    IsLiveState(t[i].state) /\ ClaimOf(u[i], i) = ClaimOf(t[i], i)

\* A table whose live records are those of another remembers no other claim.
LEMMA FadedEnds ==
  ASSUME NEW t, NEW u, NEW now, Faded(u, t)
  PROVE  EndedAt(u, now) \subseteq EndedAt(t, now)
<1> SUFFICES ASSUME NEW c \in EndedAt(u, now)
             PROVE  c \in EndedAt(t, now)
  OBVIOUS
<1>1. PICK i \in Id :
        IsLiveState(u[i].state) /\ u[i].expiresAt <= now /\ c = ClaimOf(u[i], i)
  BY EndedMembers
<1>2. IsLiveState(t[i].state) /\ c = ClaimOf(t[i], i)
  BY <1>1 DEF Faded
<1>3. \A r : ClaimOf(r, i).until = r.expiresAt
  BY DEF ClaimOf
<1>4. t[i].expiresAt = u[i].expiresAt
  BY <1>1, <1>2, <1>3
<1> QED
  BY <1>1, <1>2, <1>4, EndedMembers

\* A step that makes no record live, nor changes what a live one claims, is not
\* seen to bring any claim back or to invent one.
LEMMA FadedRemembers ==
  ASSUME clock' = clock,
         Faded(reservations', reservations) \/ Faded(reservations', disk.reservations),
         disk'.reservations = disk.reservations \/ disk'.reservations = reservations'
  PROVE  Ownership!Remember({})
<1>1. EndedAt(reservations', clock) \subseteq Over
  BY FadedEnds DEF Over
<1>2. EndedAt(disk'.reservations, clock) \subseteq Over
  BY <1>1 DEF Over
<1> QED
  BY <1>1, <1>2 DEF Ownership!Remember, Over

\* A step that keeps what is owned, and lets no claim come back, is invisible
\* but for what is forgotten.
LEMMA OwnedForgets ==
  ASSUME clock' = clock, OwnedAt(reservations', clock) = OwnedAt(reservations, clock),
         Ownership!Remember({})
  PROVE  Ownership!Forget
BY DEF Ownership!Forget

\* A mutation writes the image from memory, or leaves it.
LEMMA PersistWrites ==
  ASSUME NEW stands, Persist(stands)
  PROVE  /\ disk'.reservations = disk.reservations \/ disk'.reservations = reservations'
         /\ Durable /\ stands => disk'.reservations = reservations'
BY DEF Persist, ImageOf

\* Records that are kept as they were have the claims they had.
LEMMA KeptFaded ==
  ASSUME NEW t, NEW u,
         \A i \in Id : IsLiveState(u[i].state) => IsLiveState(t[i].state) /\ u[i] = t[i]
  PROVE  Faded(u, t)
BY DEF Faded

\* From t to u the records of gone stop owning anything, and the others keep
\* their claims, the record n apart.
Replaces(t, u, now, n, gone) ==
  /\ n \notin gone
  /\ \A i \in Id \ {n} : /\ LiveAt(u[i], now) <=> LiveAt(t[i], now) /\ i \notin gone
                         /\ LiveAt(u[i], now) => ClaimOf(u[i], i) = ClaimOf(t[i], i)

\* When one record changes owner and the others that are not gone keep theirs,
\* the claims change accordingly.
LEMMA OwnedExcept ==
  ASSUME NEW t, NEW u, NEW now, NEW n \in Id, NEW gone, Replaces(t, u, now, n, gone)
  PROVE  \A c : c \in OwnedAt(u, now) <=>
                 \/ c \in OwnedAt(t, now) /\ c.id \notin gone /\ c.id # n
                 \/ LiveAt(u[n], now) /\ c = ClaimOf(u[n], n)
<1>1. ASSUME NEW c \in OwnedAt(u, now)
      PROVE  \/ c \in OwnedAt(t, now) /\ c.id \notin gone /\ c.id # n
             \/ LiveAt(u[n], now) /\ c = ClaimOf(u[n], n)
  <2>1. c.id \in Id /\ LiveAt(u[c.id], now) /\ c = ClaimOf(u[c.id], c.id)
    BY OwnedMembers
  <2>2. CASE c.id = n
    BY <2>1, <2>2
  <2>3. CASE c.id # n
    <3>1. LiveAt(t[c.id], now) /\ c.id \notin gone /\ c = ClaimOf(t[c.id], c.id)
      BY <2>1, <2>3 DEF Replaces
    <3> QED
      BY <2>1, <2>3, <3>1, OwnedMembers
  <2> QED
    BY <2>2, <2>3
<1>2. ASSUME NEW c \in OwnedAt(t, now), c.id \notin gone, c.id # n
      PROVE  c \in OwnedAt(u, now)
  <2>1. c.id \in Id \ {n} /\ LiveAt(t[c.id], now) /\ c = ClaimOf(t[c.id], c.id)
    BY <1>2, OwnedMembers
  <2>2. LiveAt(u[c.id], now) /\ c = ClaimOf(u[c.id], c.id)
    BY <1>2, <2>1 DEF Replaces
  <2> QED
    BY <2>1, <2>2, OwnedMembers
<1>3. LiveAt(u[n], now) => ClaimOf(u[n], n) \in OwnedAt(u, now)
  BY OwnedMembers
<1> QED
  BY <1>1, <1>2, <1>3

\* What a record owns is a claim of the abstract owner.
LEMMA ClaimType ==
  ASSUME NEW r \in Reservation, NEW i \in Id
  PROVE  ClaimOf(r, i) \in Ownership!Claim
<1>1. i \in Nat
  BY ConstantsAssumption DEF Id
<1>2. /\ r.domains \in SUBSET Domain /\ r.low \in Nat /\ r.high \in Nat /\ r.guard \in Nat
      /\ r.expiresAt \in Nat
  BY DEF Reservation
<1> QED
  BY <1>1, <1>2 DEF ClaimOf, Ownership!Claim

\* What the abstract owner does, but for a claim that stands again.
Tame ==
  \/ Ownership!Grant \/ Ownership!GrantLate
  \/ Ownership!Prolong \/ Ownership!ProlongLate
  \/ Ownership!Return \/ Ownership!Forget \/ Ownership!Pass

\* A claim stands again, and it is a late renewal that made it.
Wild == Ownership!Revive /\ \E i \in Id : LateRenewal(i)

\* A commit that stands is a grant of the abstract owner: a new claim compatible
\* with every claim, in place of at most one. It is a late grant when the lease
\* of a caller that lags has run out already.
LEMMA CommitGrants ==
  ASSUME IndexInv, Durable, NEW q \in Request, NEW now \in Instants,
         AllocateCommit(q, now, TRUE)
  PROVE  Tame
<1> DEFINE t     == AfterPrune(reservations)
           index == IndexAfterPrune(requestIndex, reservations)
           n     == nextReservationId
           gone  == Superseded(q, t, index)
           u     == AfterPrune(Inserted(q, now, t, index))
           r     == NewReservation(q, now)
           c     == ClaimOf(r, n)
           old   == OwnedAt(reservations, clock)
           new   == OwnedAt(u, clock)
<1>1. /\ now \in Nat /\ now <= clock /\ now + Lag >= clock /\ clock \in Nat /\ Lag \in Nat
      /\ n \in Id /\ Placements(q, now) # {}
  BY TypeFacts, ConstantsAssumption DEF AllocateCommit, Eligible, IndexInv, TypeOK, Instants
<1>2. /\ reservations' = u /\ clock' = clock
      /\ disk'.reservations = u
  BY PersistWrites DEF AllocateCommit
<1>3. /\ n \notin gone /\ reservations[n].state = "None" /\ u[n] = r
      /\ \A i \in Id \ {n} :
           /\ IsLiveState(u[i].state) <=> IsLiveState(reservations[i].state) /\ i \notin gone
           /\ IsLiveState(u[i].state) => u[i] = reservations[i]
  BY <1>1, InsertedLive DEF IndexInv, IdsFresh, Id
<1>4. IsLiveState(r.state) /\ r.expiresAt \in Nat /\ r.expiresAt > now
  <2>1. r.expiresAt = LeaseStart(q, now) + q.duration /\ IsLiveState(r.state)
    BY NotLive DEF NewReservation
  <2>2. q.duration \in Nat \ {0} /\ q.notBefore \in Nat
    BY ConstantsAssumption DEF RequestType
  <2>3. LeaseStart(q, now) \in Nat /\ LeaseStart(q, now) >= now
    BY <1>1, <2>2 DEF LeaseStart
  <2> HIDE DEF r
  <2> QED
    BY <1>1, <2>1, <2>2, <2>3
<1>5. \A i \in gone, j \in gone : i = j
  BY DEF Superseded
<1>6. r \in Reservation
  BY <1>1, NewReservationType DEF IndexInv
<1>7. c \in Ownership!Claim
  <2> HIDE DEF r
  <2> QED
    BY <1>1, <1>6, ClaimType
<1>8. /\ c.id = n /\ c.until = r.expiresAt /\ c.domains = r.domains /\ c.low = r.low
      /\ c.high = r.high /\ c.guard = r.guard
  BY DEF ClaimOf
<1> HIDE DEF t, gone, u, r, c
<1>9. ~LiveAt(reservations[n], clock)
  BY <1>3, NotLive DEF LiveAt
<1>10. Replaces(reservations, u, clock, n, gone)
  BY <1>3 DEF LiveAt, Replaces
<1>11. LiveAt(u[n], clock) <=> r.expiresAt > clock
  BY <1>3, <1>4 DEF LiveAt
<1>12. u[n] = r /\ ClaimOf(u[n], n) = c
  BY <1>3 DEF c
<1>13. \A b \in old : b.id # n /\ b.id \in Id /\ LiveAt(reservations[b.id], clock)
                      /\ b = ClaimOf(reservations[b.id], b.id)
  BY <1>9, OwnedMembers
<1>14. \A b : b \in new <=> \/ b \in old /\ b.id \notin gone
                           \/ (r.expiresAt > clock /\ b = c)
  <2>1. n \in Id
    BY <1>1
  <2>2. \A b : b \in new <=> \/ b \in old /\ b.id \notin gone /\ b.id # n
                             \/ (LiveAt(u[n], clock) /\ b = ClaimOf(u[n], n))
    BY <1>10, <2>1, OwnedExcept
  <2>3. \A b \in old : b.id # n
    BY <1>13
  <2> DEFINE d == ClaimOf(u[n], n)
             now_ == LiveAt(u[n], clock)
             until == r.expiresAt > clock
  <2>4. (now_ <=> until) /\ d = c
    BY <1>11, <1>12
  <2>5. \A b : b \in new <=> \/ b \in old /\ b.id \notin gone /\ b.id # n
                             \/ (now_ /\ b = d)
    BY <2>2
  <2> HIDE DEF d, old, new, now_, until, n
  <2>6. \A b : b \in new <=> (b \in old /\ b.id \notin gone) \/ (until /\ b = c)
    BY <2>3, <2>4, <2>5
  <2> QED
    BY <2>6 DEF until
<1>15. ASSUME NEW b \in old
       PROVE  b.id # c.id /\ Ownership!Compatible(c, b)
  <2> DEFINE s == reservations[b.id]
  <2>1. /\ b.domains = s.domains /\ b.low = s.low /\ b.high = s.high /\ b.guard = s.guard
    <3>1. \A x, i : /\ ClaimOf(x, i).domains = x.domains /\ ClaimOf(x, i).low = x.low
                    /\ ClaimOf(x, i).high = x.high /\ ClaimOf(x, i).guard = x.guard
      BY DEF ClaimOf
    <3>2. b = ClaimOf(s, b.id)
      BY <1>13
    <3> HIDE DEF s
    <3> QED
      BY <3>1, <3>2
  <2>2. LiveAt(s, now)
    <3>1. s.expiresAt \in Nat /\ LiveAt(s, clock)
      BY <1>13 DEF IndexInv, TypeOK, Table, Reservation
    <3> HIDE DEF s
    <3> QED
      BY <1>1, <3>1 DEF LiveAt
  <2>3. ASSUME ShareDomain(c, b)
        PROVE  ~Clash(c, b, 0)
    <3>1. ShareDomain(r, s)
      BY <1>8, <2>1, <2>3 DEF ShareDomain
    <3>2. ~Clash(r, s, 0)
      BY <1>1, <1>13, <2>2, <3>1, PlacedClear DEF r
    <3> HIDE DEF s
    <3> QED
      BY <1>8, <2>1, <3>2, ClashOfSame
  <2> QED
    BY <1>8, <1>13, <2>3
    DEF Ownership!Compatible, Ownership!ShareDomain, ShareDomain, Ownership!Clash, Clash,
        Ownership!FrequencyConflict, FrequencyConflict, Ownership!GuardBetween, GuardBetween
<1>16. Ownership!Free(c)
  <2> QED
    BY <1>15 DEF Ownership!Free, old
<1>17. \/ {b \in old : b.id \notin gone} = old
       \/ \E given \in old : {b \in old : b.id \notin gone} = old \ {given}
  <2> HIDE DEF old
  <2>1. CASE \A b \in old : b.id \notin gone
    BY <2>1
  <2>2. ASSUME NEW given \in old, given.id \in gone
        PROVE  {b \in old : b.id \notin gone} = old \ {given}
    <3>1. \A b \in old : b.id = given.id => b = given
      BY <1>13
    <3>2. \A b \in old : b.id \in gone <=> b = given
      BY <1>5, <2>2, <3>1
    <3> QED
      BY <3>2
  <2> QED
    BY <2>1, <2>2
<1>18. \A b \in EndedAt(u, clock) : b \in Over \/ (b = c /\ r.expiresAt <= clock)
  <2> SUFFICES ASSUME NEW b \in EndedAt(u, clock)
               PROVE  b \in EndedAt(reservations, clock) \/ (b = c /\ r.expiresAt <= clock)
    BY DEF Over
  <2>1. PICK i \in Id :
          IsLiveState(u[i].state) /\ u[i].expiresAt <= clock /\ b = ClaimOf(u[i], i)
    BY EndedMembers
  <2>2. CASE i = n
    BY <1>12, <2>1, <2>2
  <2>3. CASE i # n
    <3>1. IsLiveState(reservations[i].state) /\ u[i] = reservations[i]
      BY <1>3, <2>1, <2>3
    <3>2. reservations[i].expiresAt <= clock /\ b = ClaimOf(reservations[i], i)
      BY <2>1, <3>1
    <3> QED
      BY <3>1, <3>2, EndedMembers
  <2> QED
    BY <2>2, <2>3
<1>19. CASE r.expiresAt > clock
  <2>1. \A b : b \in new <=> (b \in old /\ b.id \notin gone) \/ b = c
    BY <1>14, <1>19
  <2>2. c \notin old /\ c \in new
    <3> HIDE DEF old, new
    <3> QED
      BY <1>8, <1>13, <2>1
  <2>3. \/ new = old \cup {c}
        \/ \E given \in old : new = (old \ {given}) \cup {c}
    <3> HIDE DEF old, new
    <3>1. new = {b \in old : b.id \notin gone} \cup {c}
      BY <2>1
    <3> QED
      BY <1>17, <3>1
  <2>4. Ownership!Remember({})
    <3>1. \A b \in EndedAt(u, clock) : b \in Over
      <4> QED
        BY <1>1, <1>4, <1>18, <1>19
    <3> QED
      BY <1>2, <3>1 DEF Ownership!Remember, Over
  <2>5. c.until > clock
    <3> QED
      BY <1>8, <1>19
  <2>6. new = OwnedAt(reservations, clock)'
    BY <1>2
  <2> HIDE DEF new
  <2> QED
    BY <1>2, <1>7, <1>16, <2>2, <2>3, <2>4, <2>5, <2>6 DEF Tame, Ownership!Grant, old
<1>20. CASE ~(r.expiresAt > clock)
  <2>1. \A b : b \in new <=> b \in old /\ b.id \notin gone
    BY <1>14, <1>20
  <2>2. new = old \/ \E given \in old : new = old \ {given}
    <3> HIDE DEF old, new
    <3>1. new = {b \in old : b.id \notin gone}
      BY <2>1
    <3> QED
      BY <1>17, <3>1
  <2>3. new = OwnedAt(reservations, clock)'
    BY <1>2
  <2>4. Over' = EndedAt(u, clock)
    BY <1>2 DEF Over
  <2>5. c \in Over'
    <3>1. IsLiveState(u[n].state) /\ u[n].expiresAt <= clock
      <4> QED
        BY <1>1, <1>4, <1>12, <1>20
    <3>2. ClaimOf(u[n], n) \in EndedAt(u, clock)
      BY <1>1, <3>1, EndedMembers
    <3> QED
      BY <1>12, <2>4, <3>2
  <2>6. Ownership!Late(c)
    <3> QED
      BY <1>1, <1>4, <1>8, <1>20 DEF Ownership!Late
  <2> HIDE DEF new
  <2>7. Over' \subseteq Over \cup {c}
    BY <1>18, <2>4
  <2>8. CASE c \in Over
    <3>1. Ownership!Remember({})
      BY <2>7, <2>8 DEF Ownership!Remember, Over
    <3> QED
      BY <1>2, <2>2, <2>3, <3>1 DEF Tame, Ownership!Return, Ownership!Forget, old
  <2>9. CASE c \notin Over
    <3>1. Ownership!Remember({c})
      BY <2>7 DEF Ownership!Remember, Over
    <3>2. c \in ((Over)' \ Over) \cap Ownership!Claim
      BY <1>7, <2>5, <2>9
    <3> QED
      BY <1>2, <1>16, <2>2, <2>3, <2>6, <3>1, <3>2
      DEF Tame, Ownership!GrantLate, old, Over
  <2> QED
    BY <2>8, <2>9
<1> QED
  BY <1>19, <1>20

\* An operation on one reservation prolongs a claim, returns one, or is not
\* visible, unless it is a renewal that comes late: then a claim that has passed
\* stands again, or passes later.
LEMMA SettleOwnership ==
  ASSUME IndexInv, Durable, NEW i \in Id, OneReservation(i)
  PROVE  Tame \/ Wild
<1> DEFINE old == OwnedAt(reservations, clock)
           new == OwnedAt(reservations', clock)
           s   == reservations[i]
<1>1. PICK now \in Instants, stands \in Outcome, r \in Reservation :
        /\ Settle(i, r, now, stands)
        /\ IsLiveState(s.state)
        /\ r.domains = s.domains /\ r.guard = s.guard
        /\ r.low = s.low /\ r.high = s.high
        /\ r.updatedAt = now
        /\ IsLiveState(r.state) =>
             \/ r.expiresAt = s.expiresAt
             \/ r.expiresAt > s.expiresAt /\ LiveAt(s, now)
  BY OneReservationSettles DEF IndexInv
<1>2. /\ clock' = clock /\ reservations \in Table /\ s \in Reservation
      /\ now \in Nat /\ clock \in Nat /\ Lag \in Nat /\ now + Lag >= clock
      /\ r.expiresAt \in Nat /\ s.expiresAt \in Nat
  BY <1>1, ConstantsAssumption DEF Settle, IndexInv, TypeOK, Table, Instants, Reservation
<1>3. \A j \in Id : reservations'[j] = IF stands /\ j = i THEN r ELSE reservations[j]
  BY <1>1, <1>2 DEF Settle, Table
<1>4. \A c : c \in new <=> \/ c \in old /\ c.id # i
                           \/ LiveAt(reservations'[i], clock) /\ c = ClaimOf(reservations'[i], i)
  <2>1. Replaces(reservations, reservations', clock, i, {})
    BY <1>3 DEF Replaces
  <2> QED
    BY <2>1, OwnedExcept
<1>5. \A c \in old : c.id \in Id /\ LiveAt(reservations[c.id], clock)
                     /\ c = ClaimOf(reservations[c.id], c.id)
  BY OwnedMembers
<1>6. /\ disk'.reservations = disk.reservations \/ disk'.reservations = reservations'
      /\ stands => disk'.reservations = reservations'
  BY <1>1, PersistWrites DEF Settle
<1>7. CASE ~stands
  <2>1. reservations' = reservations
    BY <1>1, <1>7 DEF Settle
  <2>2. Ownership!Remember({})
    BY <1>2, <1>6, <2>1, KeptFaded, FadedRemembers
  <2> QED
    BY <1>2, <2>1, <2>2, OwnedForgets DEF Tame
<1> DEFINE c == ClaimOf(s, i)
           d == ClaimOf(r, i)
<1>8. /\ c.id = i /\ d.id = i /\ c.until = s.expiresAt /\ d.until = r.expiresAt
      /\ d = [c EXCEPT !.until = d.until]
  BY <1>1 DEF ClaimOf
<1>9. c \in Ownership!Claim /\ d \in Ownership!Claim
  BY <1>2, ClaimType
<1> HIDE DEF c, d
<1>10. /\ LiveAt(s, clock) => c \in old /\ {b \in old : b.id # i} = old \ {c}
       /\ ~LiveAt(s, clock) => {b \in old : b.id # i} = old
  <2>1. LiveAt(s, clock) => c \in old
    BY OwnedMembers DEF c
  <2>2. \A b \in old : b.id = i => LiveAt(s, clock) /\ b = c
    BY <1>5 DEF c
  <2> QED
    BY <1>8, <2>1, <2>2
<1>11. \A j \in Id \ {i} : IsLiveState(reservations'[j].state) => reservations'[j] = reservations[j]
  BY <1>3
<1>12. CASE stands /\ ~IsLiveState(r.state)
  <2>1. reservations'[i] = r
    BY <1>3, <1>12
  <2>2. Ownership!Remember({})
    <3>1. \A j \in Id : IsLiveState(reservations'[j].state) =>
            IsLiveState(reservations[j].state) /\ reservations'[j] = reservations[j]
      BY <1>11, <1>12, <2>1
    <3> QED
      BY <1>2, <1>6, <3>1, KeptFaded, FadedRemembers
  <2>3. new = {b \in old : b.id # i}
    BY <1>4, <1>12, <2>1 DEF LiveAt
  <2> QED
    BY <1>2, <1>10, <2>2, <2>3 DEF Tame, Ownership!Return, Ownership!Forget
<1>13. CASE stands /\ IsLiveState(r.state) /\ r.expiresAt = s.expiresAt
  <2>1. reservations'[i] = r
    BY <1>3, <1>13
  <2>2. d = c
    BY <1>1, <1>13 DEF c, d, ClaimOf
  <2>3. Ownership!Remember({})
    <3>1. Faded(reservations', reservations)
      BY <1>1, <1>11, <2>1, <2>2 DEF Faded, c, d
    <3> QED
      BY <1>2, <1>6, <3>1, FadedRemembers
  <2>4. LiveAt(r, clock) <=> LiveAt(s, clock)
    BY <1>1, <1>13 DEF LiveAt
  <2>5. \A b : b \in new <=> (b \in old /\ b.id # i) \/ (LiveAt(s, clock) /\ b = c)
    BY <1>4, <2>1, <2>2, <2>4 DEF d
  <2>6. new = old
    <3> HIDE DEF old, new, s
    <3> QED
      BY <1>10, <2>5
  <2> QED
    BY <1>2, <2>3, <2>6, OwnedForgets DEF Tame
<1>14. CASE stands /\ IsLiveState(r.state) /\ r.expiresAt > s.expiresAt
  <2>1. reservations'[i] = r /\ s.expiresAt > now
    BY <1>1, <1>2, <1>3, <1>14 DEF LiveAt
  <2>2. LiveAt(s, clock) <=> s.expiresAt > clock
    BY <1>1 DEF LiveAt
  <2>3. LiveAt(r, clock) <=> r.expiresAt > clock
    BY <1>14 DEF LiveAt
  <2>4. \A b : b \in new <=> (b \in old /\ b.id # i) \/ (r.expiresAt > clock /\ b = d)
    BY <1>4, <2>1, <2>3 DEF d
  <2>5. ASSUME NEW b \in EndedAt(reservations', clock)
        PROVE  b \in Over \/ (b = d /\ r.expiresAt <= clock)
    <3>1. PICK j \in Id : /\ IsLiveState(reservations'[j].state)
                          /\ reservations'[j].expiresAt <= clock
                          /\ b = ClaimOf(reservations'[j], j)
      BY EndedMembers
    <3>2. CASE j = i
      BY <2>1, <3>1, <3>2 DEF d
    <3>3. CASE j # i
      <4>1. reservations'[j] = reservations[j]
        BY <1>11, <3>1, <3>3
      <4>2. b \in EndedAt(reservations, clock)
        BY <3>1, <4>1, EndedMembers
      <4> QED
        BY <4>2 DEF Over
    <3> QED
      BY <3>2, <3>3
  <2>6. (Over)' = EndedAt(reservations', clock)
    BY <1>2, <1>6, <1>14 DEF Over
  <2>7. Ownership!Longer(d, c)
    BY <1>8, <1>14 DEF Ownership!Longer
  <2>8. d \notin old \/ LiveAt(s, clock)
    BY <1>8, <1>10
  <2>9. CASE s.expiresAt > clock
    <3>1. r.expiresAt > clock
      BY <1>2, <1>14, <2>9
    <3>2. new = (old \ {c}) \cup {d}
      BY <1>10, <2>2, <2>4, <2>9, <3>1
    <3>3. Ownership!Remember({})
      <4>1. \A b \in EndedAt(reservations', clock) : b \in Over
        BY <1>2, <2>5, <3>1
      <4> QED
        BY <2>6, <4>1 DEF Ownership!Remember, Over
    <3>4. d \notin old
      <4>1. d # c
        BY <1>2, <1>8, <1>14
      <4> QED
        BY <1>8, <1>10, <2>2, <2>9, <4>1
    <3> HIDE DEF s
    <3> QED
      BY <1>2, <1>9, <1>10, <2>2, <2>7, <2>9, <3>2, <3>3, <3>4 DEF Tame, Ownership!Prolong
  <2>10. CASE ~(s.expiresAt > clock)
    <3>1. s.expiresAt <= clock /\ s.expiresAt + Lag > clock
      BY <1>2, <2>1, <2>10
    <3>2. c \in Over /\ Ownership!Late(c)
      <4>1. c \in EndedAt(reservations, clock)
        BY <1>1, <3>1, EndedMembers DEF c
      <4> QED
        BY <1>8, <3>1, <4>1 DEF Over, Ownership!Late
    <3>3. {b \in old : b.id # i} = old
      BY <1>10, <2>2, <2>10
    <3>4. CASE r.expiresAt > clock
      <4>1. new = old \cup {d}
        BY <2>4, <3>3, <3>4
      <4>2. Ownership!Remember({})
        <5>1. \A b \in EndedAt(reservations', clock) : b \in Over
          BY <1>2, <2>5, <3>4
        <5> QED
          BY <2>6, <5>1 DEF Ownership!Remember, Over
      <4>3. \A b \in old : b.id # d.id
        BY <1>8, <3>3
      <4>4. d \notin old
        BY <4>3
      <4>5. Ownership!Revive
        BY <1>2, <1>9, <2>7, <3>2, <4>1, <4>2, <4>3, <4>4 DEF Ownership!Revive, Over
      <4>6. LateRenewal(i)
        BY <1>1, <1>2, <1>14, <2>1, <3>1 DEF LateRenewal
      <4> QED
        BY <4>5, <4>6 DEF Wild
    <3>5. CASE ~(r.expiresAt > clock)
      <4>1. new = old
        BY <2>4, <3>3, <3>5
      <4>2. r.expiresAt <= clock
        BY <1>2, <3>5
      <4>3. Ownership!Remember({d})
        BY <2>5, <2>6 DEF Ownership!Remember, Over
      <4>4. d \in (Over)'
        BY <1>14, <2>1, <2>6, <4>2, EndedMembers DEF d
      <4>5. CASE d \in Over
        <5>1. Ownership!Remember({})
          BY <4>3, <4>5 DEF Ownership!Remember, Over
        <5> QED
          BY <1>2, <4>1, <5>1, OwnedForgets DEF Tame
      <4>6. CASE d \notin Over
        <5>1. d \in ((Over)' \ Over) \cap Ownership!Claim /\ d.until <= clock
          BY <1>8, <1>9, <4>2, <4>4, <4>6
        <5> QED
          BY <1>2, <2>7, <3>2, <4>1, <4>3, <5>1 DEF Tame, Ownership!ProlongLate, Over
      <4> QED
        BY <4>5, <4>6
    <3> QED
      BY <3>4, <3>5
  <2> QED
    BY <2>9, <2>10
<1> QED
  BY <1>1, <1>7, <1>12, <1>13, <1>14

\* allocate grants a claim or is not visible.
LEMMA AllocateOwnership ==
  ASSUME IndexInv, Durable, Allocate
  PROVE  Tame \/ UNCHANGED <<clock, reservations, disk>>
<1> PICK q \in Request :
      \/ AllocateReplay(q)
      \/ \E now \in Instants :
           \/ \E authorised \in BOOLEAN : AllocateRefused(q, now, authorised)
           \/ AllocateAbandoned(q, now)
           \/ \E stands \in Outcome : AllocateCommit(q, now, stands)
  BY DEF Allocate
<1>1. CASE AllocateReplay(q)
  BY <1>1 DEF AllocateReplay, memory
<1>2. ASSUME NEW now \in Instants, NEW authorised \in BOOLEAN,
             AllocateRefused(q, now, authorised)
      PROVE  UNCHANGED <<clock, reservations, disk>>
  BY <1>2 DEF AllocateRefused
<1>3. ASSUME NEW now \in Instants, AllocateAbandoned(q, now)
      PROVE  Ownership!Forget
  <2>1. /\ reservations' = AfterPrune(reservations) /\ clock' = clock /\ disk' = disk
        /\ reservations \in Table
    BY <1>3 DEF AllocateAbandoned, IndexInv, TypeOK
  <2>2. OwnedAt(reservations', clock) = OwnedAt(reservations, clock)
    BY <2>1, PruneAgrees, AgreeOwned
  <2>3. \A i \in Id : IsLiveState(reservations'[i].state) =>
          IsLiveState(reservations[i].state) /\ reservations'[i] = reservations[i]
    BY <2>1, PruneKeepsLive
  <2>4. Ownership!Remember({})
    BY <2>1, <2>3, KeptFaded, FadedRemembers
  <2> QED
    BY <2>1, <2>2, <2>4, OwnedForgets
<1>4. ASSUME NEW now \in Instants, AllocateCommit(q, now, FALSE)
      PROVE  Ownership!Forget
  <2> DEFINE t     == AfterPrune(reservations)
             index == IndexAfterPrune(requestIndex, reservations)
             n     == nextReservationId
             back  == RolledBack(q, now, t, index)
  <2>1. /\ now \in Nat /\ n \in Id /\ Placements(q, now) # {}
        /\ reservations' = back /\ clock' = clock /\ disk' = disk
    BY <1>4, TypeFacts DEF AllocateCommit, Eligible, IndexInv, Persist
  <2>2. OwnedAt(reservations', clock) = OwnedAt(reservations, clock)
    <3>1. FALSE \in Outcome
      BY DEF Outcome
    <3> QED
      BY <1>4, <3>1, RolledBackAgrees, AgreeOwned
  <2>3. /\ back[n] = NoReservation
        /\ \A i \in Id \ {n} :
             /\ IsLiveState(back[i].state) <=> IsLiveState(reservations[i].state)
             /\ IsLiveState(back[i].state) => back[i] = reservations[i]
    BY <2>1, InsertedLive DEF IndexInv
  <2> HIDE DEF t, back
  <2>4. ~IsLiveState(back[n].state)
    BY <2>3, NotLive DEF NoReservation
  <2>5. \A i \in Id : IsLiveState(reservations'[i].state) =>
          IsLiveState(reservations[i].state) /\ reservations'[i] = reservations[i]
    BY <2>1, <2>3, <2>4
  <2>6. Ownership!Remember({})
    BY <2>1, <2>5, KeptFaded, FadedRemembers
  <2> QED
    BY <2>1, <2>2, <2>6, OwnedForgets
<1>5. ASSUME NEW now \in Instants, NEW stands \in Outcome, AllocateCommit(q, now, stands)
      PROVE  Tame
  <2>1. CASE stands = TRUE
    BY <1>5, <2>1, CommitGrants
  <2>2. CASE stands = FALSE
    BY <1>4, <1>5, <2>2 DEF Tame
  <2> QED
    BY <2>1, <2>2 DEF Outcome
<1> QED
  BY <1>1, <1>2, <1>3, <1>4, <1>5 DEF Tame

\* As time passes, the claims that stand are those whose lease has not run out,
\* and the others are remembered.
LEMMA TickPasses ==
  ASSUME DurabilityInv, Durable, Tick
  PROVE  Ownership!Pass
<1> DEFINE old == OwnedAt(reservations, clock)
           new == OwnedAt(reservations, clock + 1)
<1>1. /\ clock' = clock + 1 /\ reservations' = reservations /\ disk' = disk
      /\ reservations \in Table /\ disk.reservations \in Table /\ clock \in Nat
  BY DEF Tick, memory, DurabilityInv, IndexInv, TypeOK, Image
<1>2. \A t \in Table, i \in Id :
        /\ t[i].expiresAt \in Nat
        /\ LiveAt(t[i], clock + 1) <=> LiveAt(t[i], clock) /\ t[i].expiresAt > clock + 1
        /\ IsLiveState(t[i].state) /\ t[i].expiresAt <= clock + 1 =>
             \/ t[i].expiresAt <= clock
             \/ LiveAt(t[i], clock) /\ ~(t[i].expiresAt > clock + 1)
  BY <1>1 DEF LiveAt, Table, Reservation
<1>3. \A r, i : ClaimOf(r, i).until = r.expiresAt
  BY DEF ClaimOf
<1>4. ASSUME NEW c \in new
      PROVE  c \in old /\ c.until > clock + 1
  <2>1. PICK i \in Id : LiveAt(reservations[i], clock + 1) /\ c = ClaimOf(reservations[i], i)
    BY OwnedMembers
  <2>2. LiveAt(reservations[i], clock) /\ c.until > clock + 1
    BY <1>1, <1>2, <1>3, <2>1
  <2> QED
    BY <2>1, <2>2, OwnedMembers
<1>5. ASSUME NEW c \in old, c.until > clock + 1
      PROVE  c \in new
  <2>1. PICK i \in Id : LiveAt(reservations[i], clock) /\ c = ClaimOf(reservations[i], i)
    BY OwnedMembers
  <2>2. LiveAt(reservations[i], clock + 1)
    BY <1>1, <1>2, <1>3, <1>5, <2>1
  <2> QED
    BY <2>1, <2>2, OwnedMembers
<1>6. new = {c \in old : c.until > clock + 1}
  BY <1>4, <1>5
<1>7. OwnedAt(disk.reservations, clock) = old
  BY AgreeOwned DEF DurabilityInv
<1>8. ASSUME NEW t \in Table, OwnedAt(t, clock) = old, NEW c \in EndedAt(t, clock + 1)
      PROVE  c \in EndedAt(t, clock) \/ c \in old \ new
  <2>1. PICK i \in Id :
          IsLiveState(t[i].state) /\ t[i].expiresAt <= clock + 1 /\ c = ClaimOf(t[i], i)
    BY EndedMembers
  <2>2. CASE t[i].expiresAt <= clock
    BY <2>1, <2>2, EndedMembers
  <2>3. CASE LiveAt(t[i], clock) /\ ~(t[i].expiresAt > clock + 1)
    <3>1. c \in old
      BY <1>8, <2>1, <2>3, OwnedMembers
    <3>2. ~(c.until > clock + 1)
      BY <1>3, <2>1, <2>3
    <3> HIDE DEF old, new
    <3> QED
      BY <1>6, <3>1, <3>2
  <2> QED
    BY <1>2, <2>1, <2>2, <2>3
<1>9. EndedAt(reservations, clock + 1) \cup EndedAt(disk.reservations, clock + 1)
        \subseteq Over \cup (old \ new)
  BY <1>1, <1>7, <1>8 DEF Over
<1> QED
  BY <1>1, <1>6, <1>9 DEF Ownership!Pass, Ownership!Remember, Over

\* Every step of the runtime is a step of the abstract owner or a stutter, and a
\* claim stands again only by a late renewal.
LEMMA NextRefines ==
  ASSUME Durable, ~AllowReset, DurabilityInv, [Next]_vars
  PROVE  Tame \/ Wild \/ UNCHANGED <<clock, reservations, disk>>
<1>0. IndexInv /\ TypeOK
  BY DEF DurabilityInv, IndexInv
<1>1. CASE Allocate
  BY <1>0, <1>1, AllocateOwnership
<1>2. ASSUME NEW i \in Id, OneReservation(i)
      PROVE  Tame \/ Wild
  BY <1>0, <1>2, SettleOwnership
<1>3. CASE Sweeps
  <2>1. clock' = clock /\ OwnedAt(reservations', clock) = OwnedAt(reservations, clock)
    BY <1>0, <1>3, SweepsAgree, AgreeOwned
  <2>2. PICK stands \in Outcome :
          /\ Persist(stands)
          /\ \A i \in Id : IsLiveState(reservations'[i].state) =>
               IsLiveState(reservations[i].state) /\ reservations'[i] = reservations[i]
    BY <1>0, <1>3, SweepsEffect
  <2>3. Ownership!Remember({})
    BY <2>1, <2>2, PersistWrites, KeptFaded, FadedRemembers
  <2> QED
    BY <2>1, <2>3, OwnedForgets DEF Tame
<1>4. CASE Save
  <2>1. clock' = clock /\ reservations' = reservations /\ disk'.reservations = reservations
    BY <1>4 DEF Save, memory, ImageOf
  <2>2. Faded(reservations', reservations)
    BY <2>1 DEF Faded
  <2>3. Ownership!Remember({})
    BY <2>1, <2>2, FadedRemembers
  <2> QED
    BY <2>1, <2>3, OwnedForgets DEF Tame
<1>5. CASE Recover
  <2>1. clock' = clock /\ disk' = disk
    BY <1>5 DEF Recover
  <2>2. Agree(reservations', disk.reservations, clock)
    BY <1>0, <1>5, RecoverAgrees
  <2>3. Agree(disk.reservations, reservations, clock)
    BY AgreeSymmetric DEF DurabilityInv
  <2>4. OwnedAt(reservations', clock) = OwnedAt(reservations, clock)
    BY <2>2, <2>3, AgreeTransitive, AgreeOwned
  <2>5. Faded(reservations', disk.reservations)
    <3>1. \A i \in Id : /\ disk.reservations[i] \in Reservation
                        /\ reservations'[i] = Demoted(disk.reservations[i])
      BY <1>0, <1>5 DEF Recover, TypeOK, Image, Table
    <3> QED
      BY <3>1, DemotedClaim DEF Faded, ClaimOf
  <2>6. Ownership!Remember({})
    BY <2>1, <2>5, FadedRemembers
  <2> QED
    BY <2>1, <2>4, <2>6, OwnedForgets DEF Tame
<1>6. CASE StartAfresh
  <2>1. clock' = clock /\ disk' = disk /\ reservations' = disk.reservations
    BY <1>6 DEF StartAfresh, Emptied, DurabilityInv
  <2>2. OwnedAt(reservations', clock) = OwnedAt(reservations, clock)
    BY <2>1, AgreeOwned DEF DurabilityInv
  <2>3. Faded(reservations', disk.reservations)
    BY <2>1 DEF Faded
  <2>4. Ownership!Remember({})
    BY <2>1, <2>3, FadedRemembers
  <2> QED
    BY <2>1, <2>2, <2>4, OwnedForgets DEF Tame
<1>7. CASE Reset
  BY <1>7 DEF Reset
<1>8. CASE Tick
  BY <1>8, TickPasses DEF Tame
<1>9. CASE UNCHANGED vars
  BY <1>9 DEF vars, memory
<1> QED
  BY <1>1, <1>2, <1>3, <1>4, <1>5, <1>6, <1>7, <1>8, <1>9 DEF Next

\* With durable commits and no reset, however far callers lag behind the clock,
\* what the runtime does to spectrum is what the abstract owner does: claims are
\* granted clear of all that stand, prolonged, returned, or run out, a claim
\* that has passed stands again by a late word only, and no failed write, prune,
\* sweep, crash or recovery shows.
THEOREM RefinesOwnership ==
  ASSUME Durable, ~AllowReset
  PROVE  Spec => OwnsSpectrum
<1>1. Init => Ownership!Init
  <2>1. \A i \in Id : ~IsLiveState(EmptyTable[i].state)
    BY NotLive DEF EmptyTable, NoReservation
  <2>2. OwnedAt(EmptyTable, 1) = {} /\ EndedAt(EmptyTable, 1) = {}
    BY <2>1 DEF OwnedAt, EndedAt, LiveAt
  <2>3. Init => /\ clock = 1 /\ reservations = EmptyTable
                /\ disk.reservations = EmptyTable
    BY DEF Init, NoImage
  <2> QED
    BY <2>2, <2>3 DEF Ownership!Init
<1>2. DurabilityInv /\ [Next]_vars => [Ownership!Next]_(Ownership!ownershipVars)
  <2>1. Tame \/ Wild => Ownership!Next
    BY DEF Tame, Wild, Ownership!Next
  <2>2. UNCHANGED <<clock, reservations, disk>> => UNCHANGED Ownership!ownershipVars
    BY DEF Ownership!ownershipVars
  <2> QED
    BY <2>1, <2>2, NextRefines
<1> QED
  BY <1>1, <1>2, InitDurability, NextDurability, PTL
  DEF Spec, OwnsSpectrum, Ownership!Spec

\* Compatibility does not depend on the order of two claims.
LEMMA CompatibleSymmetric ==
  ASSUME NEW a \in Ownership!Claim, NEW b \in Ownership!Claim, Ownership!Compatible(a, b)
  PROVE  Ownership!Compatible(b, a)
<1>1. a.guard \in Nat /\ b.guard \in Nat
  BY DEF Ownership!Claim
<1>2. Ownership!GuardBetween(a, b) = Ownership!GuardBetween(b, a)
  BY <1>1 DEF Ownership!GuardBetween
<1>3. Ownership!ShareDomain(b, a) => Ownership!ShareDomain(a, b)
  BY DEF Ownership!ShareDomain
<1> QED
  BY <1>2, <1>3 DEF Ownership!Compatible, Ownership!Clash, Ownership!FrequencyConflict

\* The claims of the abstract owner that stand, and those that have passed, are
\* claims, and its instants are instants.
Claims ==
  /\ clock \in Nat
  /\ OwnedAt(reservations, clock) \subseteq Ownership!Claim
  /\ Over \subseteq Ownership!Claim

\* Claims stay claims, and but for the step by which one stands again none
\* of the abstract owner's lets two of them clash.
LEMMA OwnersStep ==
  ASSUME Claims, [Ownership!Next]_(Ownership!ownershipVars)
  PROVE  /\ Claims'
         /\ Ownership!Exclusive /\ (Tame \/ UNCHANGED Ownership!ownershipVars)
              => Ownership!Exclusive'
<1> DEFINE claims  == OwnedAt(reservations, clock)
           claims_ == OwnedAt(reservations, clock)'
           over    == Over
           over_   == (Over)'
           Apart_(a, b) == a.id # b.id /\ Ownership!Compatible(a, b)
<1>1. /\ Ownership!Exclusive <=> \A a, b \in claims : a # b => Apart_(a, b)
      /\ Ownership!Exclusive' <=> \A a, b \in claims_ : a # b => Apart_(a, b)
  BY DEF Ownership!Exclusive
<1>2. claims \subseteq Ownership!Claim /\ over \subseteq Ownership!Claim /\ clock' \in Nat
  BY DEF Claims, Ownership!Next, Ownership!ownershipVars, Ownership!Grant,
         Ownership!GrantLate, Ownership!Prolong, Ownership!Revive, Ownership!ProlongLate,
         Ownership!Return, Ownership!Forget, Ownership!Pass
<1>3. \A new : Ownership!Remember(new) /\ new \subseteq Ownership!Claim
                 => over_ \subseteq Ownership!Claim
  BY <1>2 DEF Ownership!Remember, Over
<1>4. {} \subseteq Ownership!Claim /\ \A c \in Ownership!Claim : {c} \subseteq Ownership!Claim
  OBVIOUS
<1>5. Claims' <=> claims_ \subseteq Ownership!Claim /\ over_ \subseteq Ownership!Claim
  BY <1>2 DEF Claims
<1>6. CASE claims_ \subseteq claims /\ over_ \subseteq Ownership!Claim
  <2>1. claims_ \subseteq Ownership!Claim
    BY <1>2, <1>6
  <2> HIDE DEF claims, claims_, Apart_
  <2> QED
    BY <1>1, <1>5, <1>6, <2>1
<1>7. CASE Ownership!Grant
  <2>1. PICK c \in claims_ \cap Ownership!Claim :
          /\ \A b \in claims : b.id # c.id /\ Ownership!Compatible(c, b)
          /\ claims_ \subseteq claims \cup {c}
          /\ over_ \subseteq Ownership!Claim
    BY <1>3, <1>4, <1>7 DEF Ownership!Grant, Ownership!Free
  <2>2. \A b \in claims : Apart_(b, c) /\ Apart_(c, b)
    BY <1>2, <2>1, CompatibleSymmetric
  <2>3. claims_ \subseteq Ownership!Claim
    BY <1>2, <2>1
  <2> HIDE DEF claims, claims_, Apart_
  <2> QED
    BY <1>1, <1>5, <2>1, <2>2, <2>3
<1>8. CASE Ownership!Prolong
  <2>1. PICK c \in claims, d \in claims_ \cap Ownership!Claim :
          /\ d = [c EXCEPT !.until = d.until] /\ claims_ = (claims \ {c}) \cup {d}
          /\ over_ \subseteq Ownership!Claim
    BY <1>3, <1>4, <1>8 DEF Ownership!Prolong, Ownership!Longer
  <2>2. /\ d.id = c.id /\ d.domains = c.domains /\ d.low = c.low /\ d.high = c.high
        /\ d.guard = c.guard
    BY <1>2, <2>1 DEF Ownership!Claim
  <2>3. \A b \in claims : Apart_(c, b) => Apart_(d, b)
    BY <2>2 DEF Ownership!Compatible, Ownership!ShareDomain, Ownership!Clash,
                Ownership!FrequencyConflict, Ownership!GuardBetween
  <2>4. Ownership!Exclusive => \A b \in claims : b # c => Apart_(b, d) /\ Apart_(d, b)
    BY <1>1, <1>2, <2>1, <2>3, CompatibleSymmetric
  <2>5. claims_ \subseteq Ownership!Claim
    BY <1>2, <2>1
  <2> HIDE DEF claims, claims_, Apart_
  <2> QED
    BY <1>1, <1>5, <2>1, <2>4, <2>5
<1>9. CASE Ownership!Revive /\ ~(Tame \/ UNCHANGED Ownership!ownershipVars)
  <2>1. over_ \subseteq Ownership!Claim
    BY <1>3, <1>4, <1>9 DEF Ownership!Revive
  <2>2. claims_ \subseteq Ownership!Claim
    BY <1>2, <1>9 DEF Ownership!Revive
  <2> QED
    BY <1>5, <1>9, <2>1, <2>2
<1>10. CASE Ownership!GrantLate \/ Ownership!ProlongLate
  <2>1. PICK c \in Ownership!Claim : Ownership!Remember({c})
    BY <1>10 DEF Ownership!GrantLate, Ownership!ProlongLate
  <2>2. over_ \subseteq Ownership!Claim
    BY <1>3, <1>4, <2>1
  <2>3. claims_ \subseteq claims
    BY <1>10 DEF Ownership!GrantLate, Ownership!ProlongLate
  <2> QED
    BY <1>6, <2>2, <2>3
<1>11. CASE Ownership!Return \/ Ownership!Forget
  <2>1. over_ \subseteq Ownership!Claim
    BY <1>3, <1>4, <1>11 DEF Ownership!Return, Ownership!Forget
  <2>2. claims_ \subseteq claims
    BY <1>11 DEF Ownership!Return, Ownership!Forget
  <2> QED
    BY <1>6, <2>1, <2>2
<1>12. CASE Ownership!Pass
  <2>1. Ownership!Remember(claims \ claims_) /\ claims_ \subseteq claims
    BY <1>12 DEF Ownership!Pass
  <2>2. over_ \subseteq Ownership!Claim
    <3>1. claims \ claims_ \subseteq Ownership!Claim
      BY <1>2
    <3> QED
      BY <1>3, <2>1, <3>1
  <2> QED
    BY <1>6, <2>1, <2>2
<1>13. CASE UNCHANGED Ownership!ownershipVars
  <2>1. claims_ = claims /\ over_ = over
    BY <1>13 DEF Ownership!ownershipVars, Over
  <2> QED
    BY <1>2, <1>6, <2>1
<1> QED
  BY <1>7, <1>8, <1>9, <1>10, <1>11, <1>12, <1>13 DEF Ownership!Next, Tame

\* Whoever keeps to the abstract owner's actions lets two claims clash by the
\* late word that makes one of them stand again, and by no other step: that is
\* in the specification the runtime implements, and not only in the invariants
\* of its tables.
THEOREM OwnersExclude ==
  Ownership!Spec =>
    [][Ownership!Exclusive /\ ~Ownership!Revive => Ownership!Exclusive']_(Ownership!ownershipVars)
<1>1. Ownership!Init => Claims
  BY DEF Ownership!Init, Claims, Over
<1>2. Claims /\ [Ownership!Next]_(Ownership!ownershipVars) => Claims'
  BY OwnersStep
<1>3. Claims /\ [Ownership!Next]_(Ownership!ownershipVars) =>
        [Ownership!Exclusive /\ ~Ownership!Revive => Ownership!Exclusive']_(Ownership!ownershipVars)
  BY OwnersStep DEF Ownership!Next, Tame
<1> QED
  BY <1>1, <1>2, <1>3, PTL DEF Ownership!Spec

\* With holders whose words are never late, no two claims ever clash.
LEMMA PromptOwnersExclude ==
  ASSUME Lag = 0
  PROVE  Ownership!Spec => []Ownership!Exclusive
<1>1. Ownership!Init => Claims /\ Ownership!Exclusive
  BY DEF Ownership!Init, Ownership!Exclusive, Claims, Over
<1>2. Claims /\ Ownership!Exclusive /\ [Ownership!Next]_(Ownership!ownershipVars)
        => Claims' /\ Ownership!Exclusive'
  <2> SUFFICES ASSUME Claims, Ownership!Exclusive,
                      [Ownership!Next]_(Ownership!ownershipVars)
               PROVE  Claims' /\ Ownership!Exclusive'
    OBVIOUS
  <2>1. ASSUME Ownership!Revive
        PROVE  FALSE
    <3>1. PICK c \in Over : c.until <= clock /\ c.until + Lag > clock
      BY <2>1 DEF Ownership!Revive, Ownership!Late, Over
    <3>2. c.until \in Nat /\ clock \in Nat
      BY <3>1 DEF Claims, Ownership!Claim
    <3> QED
      BY <3>1, <3>2
  <2> QED
    BY <2>1, OwnersStep DEF Ownership!Next, Tame
<1> QED
  BY <1>1, <1>2, PTL DEF Ownership!Spec

\* And so does the runtime when callers agree on the time: no two reservations
\* that own spectrum have one identity or clash on a domain they share, because
\* it implements an owner under whom that cannot be.
THEOREM RuntimeExcludes ==
  ASSUME Durable, ~AllowReset, Lag = 0
  PROVE  Spec => []Ownership!Exclusive
BY RefinesOwnership, PromptOwnersExclude DEF OwnsSpectrum

-----------------------------------------------------------------------------
(* Callers that lag behind the clock                                       *)

\* What the abstract owner calls exclusive is what the tables call free of
\* overlap.
LEMMA ExclusiveOverlap ==
  ASSUME NEW t, NEW now
  PROVE  NoOverlapAt(t, now) <=>
           \A a, b \in OwnedAt(t, now) : a # b => a.id # b.id /\ Ownership!Compatible(a, b)
<1> USE DEF Ownership!Compatible, Ownership!ShareDomain, ShareDomain, Ownership!Clash, Clash,
            Ownership!FrequencyConflict, FrequencyConflict, Ownership!GuardBetween, GuardBetween
<1>1. \A r, i : /\ ClaimOf(r, i).domains = r.domains /\ ClaimOf(r, i).low = r.low
                /\ ClaimOf(r, i).high = r.high /\ ClaimOf(r, i).guard = r.guard
                /\ ClaimOf(r, i).id = i
  BY DEF ClaimOf
<1>2. \A r, i, s, j : Ownership!Compatible(ClaimOf(r, i), ClaimOf(s, j))
                        <=> (ShareDomain(r, s) => ~Clash(r, s, 0))
  BY <1>1
<1>3. ASSUME NoOverlapAt(t, now), NEW a \in OwnedAt(t, now), NEW b \in OwnedAt(t, now), a # b
      PROVE  a.id # b.id /\ Ownership!Compatible(a, b)
  <2>1. /\ a.id \in Id /\ LiveAt(t[a.id], now) /\ a = ClaimOf(t[a.id], a.id)
        /\ b.id \in Id /\ LiveAt(t[b.id], now) /\ b = ClaimOf(t[b.id], b.id)
    BY OwnedMembers
  <2>2. a.id # b.id
    BY <1>3, <2>1
  <2>3. ShareDomain(t[a.id], t[b.id]) => ~Clash(t[a.id], t[b.id], 0)
    BY <1>3, <2>1, <2>2 DEF NoOverlapAt
  <2> QED
    BY <1>2, <2>1, <2>2, <2>3
<1>4. ASSUME \A a, b \in OwnedAt(t, now) : a # b => a.id # b.id /\ Ownership!Compatible(a, b),
             NEW i \in Id, NEW j \in Id, i # j, LiveAt(t[i], now), LiveAt(t[j], now)
      PROVE  ShareDomain(t[i], t[j]) => ~Clash(t[i], t[j], 0)
  <2>1. ClaimOf(t[i], i) \in OwnedAt(t, now) /\ ClaimOf(t[j], j) \in OwnedAt(t, now)
    BY <1>4, OwnedMembers
  <2>2. ClaimOf(t[i], i) # ClaimOf(t[j], j)
    BY <1>1, <1>4
  <2> QED
    BY <1>2, <1>4, <2>1, <2>2
<1> QED
  BY <1>3, <1>4 DEF NoOverlapAt

\* With durable commits and no reset, however far callers lag behind the clock,
\* two reservations come to own clashing spectrum only by the renewal of a lease
\* that had run out when it was handled and had not at the instant it bears. No
\* late grant, activation, release or sweep does it, no failed write, prune,
\* crash or recovery, and no renewal that bears an instant after the end.
THEOREM OverlapCorrect ==
  ASSUME Durable, ~AllowReset
  PROVE  Spec => OnlyLateRenewalsOverlap
<1>1. ASSUME DurabilityInv, [Next]_vars, NoOverlap, ~NoOverlap'
      PROVE  \E i \in Id : LateRenewal(i)
  <2>1. NoOverlap <=> Ownership!Exclusive
    BY ExclusiveOverlap DEF NoOverlap, Ownership!Exclusive
  <2>2. NoOverlap' <=> Ownership!Exclusive'
    <3>1. NoOverlap' <=> NoOverlapAt(reservations', clock')
      BY DEF NoOverlap
    <3>2. Ownership!Exclusive' <=>
            \A a, b \in OwnedAt(reservations', clock') :
              a # b => a.id # b.id /\ Ownership!Compatible(a, b)
      BY DEF Ownership!Exclusive
    <3> QED
      BY <3>1, <3>2, ExclusiveOverlap
  <2>3. Claims
    <3>1. TypeOK
      BY <1>1 DEF DurabilityInv, IndexInv
    <3>2. \A i \in Id : /\ ClaimOf(reservations[i], i) \in Ownership!Claim
                        /\ ClaimOf(disk.reservations[i], i) \in Ownership!Claim
      BY <3>1, ClaimType DEF TypeOK, Image, Table
    <3> QED
      BY <3>1, <3>2 DEF Claims, Over, OwnedAt, EndedAt, TypeOK
  <2>4. Tame \/ Wild \/ UNCHANGED <<clock, reservations, disk>>
    BY <1>1, NextRefines
  <2>5. CASE UNCHANGED <<clock, reservations, disk>>
    BY <1>1, <2>5 DEF NoOverlap
  <2>6. CASE Tame
    <3>1. Ownership!Next
      BY <2>6 DEF Tame, Ownership!Next
    <3>2. Ownership!Exclusive'
      BY <1>1, <2>1, <2>3, <2>6, <3>1, OwnersStep
    <3> QED
      BY <1>1, <2>2, <3>2
  <2>7. CASE Wild
    BY <2>7 DEF Wild
  <2> QED
    BY <2>4, <2>5, <2>6, <2>7
<1>2. DurabilityInv /\ [Next]_vars =>
        [NoOverlap /\ ~NoOverlap' => \E i \in Id : LateRenewal(i)]_vars
  BY <1>1
<1> QED
  BY <1>2, InitDurability, NextDurability, PTL DEF Spec, OnlyLateRenewalsOverlap

-----------------------------------------------------------------------------
(* The placement of Fabric is the one the enumeration selects              *)

CONSTANTS
  Anchor,   \* frequency at which the one grid begins
  Width,    \* width of its slots
  Instant   \* the instant a caller presents

GridAssumption == Anchor \in Nat \ {0} /\ Width \in Nat \ {0}

\* The one grid, all of it allocatable and tunable on every domain.
TheGrid ==
  [anchor |-> Anchor, width |-> Width, count |-> NumSlots, minSlots |-> 1,
   maxSlots |-> NumSlots]

AllOpen ==
  [describes |-> 1, support |-> "Supported", window |-> [first |-> 0, count |-> NumSlots],
   tunable |-> [low |-> Anchor, high |-> Anchor + NumSlots * Width],
   contiguityEnforced |-> TRUE, conversion |-> FALSE]

\* A request of Fabric, and a record, in frequencies.
Asked(q) ==
  [domains |-> q.domains, grid |-> TheGrid, slots |-> q.width, guard |-> q.guard * Width,
   fragments |-> FALSE, windows |-> {}, excludedSlots |-> {},
   excludedFrequencies |-> {}, apart |-> {}]

OnGrid(r) ==
  [state |-> IF LiveAt(r, Instant) THEN "Live"
             ELSE IF r.state = "None" THEN "None" ELSE "Ended",
   domains |-> r.domains, low |-> Anchor + r.low * Width,
   high |-> Anchor + r.high * Width, guard |-> r.guard * Width]

Apart(e) == [members |-> e.members, guard |-> e.guard * Width]

C == INSTANCE CandidatesProofs WITH
  Domain <- Domain, Grid <- {TheGrid}, GridOf <- [d \in Domain |-> TheGrid],
  Fragmented <- {}, Exclusion <- {Apart(e) : e \in Exclusion}, Publication <- {},
  Request <- {Asked(q) : q \in Request}, MaxCandidates <- NumSlots,
  MaxDiagnostics <- 1, SlotWord <- NumSlots, MaxId <- MaxId, MaxGeneration <- 1,
  generation <- [d \in Domain |-> 1], capability <- [d \in Domain |-> AllOpen],
  reservations <- [i \in Id |-> OnGrid(reservations[i])]

\* The numbers are what the enumeration demands of its constants.
LEMMA GridAssumed ==
  ASSUME GridAssumption, Domain \subseteq Nat, IsFiniteSet(Domain)
  PROVE  C!CandidatesAssumption
<1>1. C!ValidGrid(TheGrid)
  BY ConstantsAssumption DEF GridAssumption, C!ValidGrid, C!GridType, TheGrid
<1>2. {Apart(e) : e \in Exclusion} \subseteq [members : SUBSET Domain, guard : Nat]
  <2>1. ASSUME NEW e \in Exclusion
        PROVE  Apart(e) \in [members : SUBSET Domain, guard : Nat]
    <3>1. e.members \in SUBSET Domain /\ e.guard \in Nat /\ e.guard * Width \in Nat
      BY ConstantsAssumption DEF GridAssumption
    <3> QED
      BY <3>1 DEF Apart
  <2> QED
    BY <2>1
<1>3. {Asked(q) : q \in Request} \subseteq C!RequestType
  <2>1. ASSUME NEW q \in Request
        PROVE  Asked(q) \in C!RequestType
    <3>1. q.domains \in SUBSET Domain /\ q.width \in Nat /\ q.guard * Width \in Nat
      BY RequestFacts DEF GridAssumption
    <3> QED
      BY <3>1 DEF Asked, C!RequestType
  <2> QED
    BY <2>1
<1>4. [d \in Domain |-> TheGrid] \in [Domain -> {TheGrid}]
  OBVIOUS
<1>5. C!IsFiniteSet(Domain)
  BY DEF IsFiniteSet, C!IsFiniteSet
<1>6. \A g \in {TheGrid} : C!ValidGrid(g)
  BY <1>1
<1>7. {} \subseteq Domain /\ {} \subseteq C!PublicationType /\ 1 \in Nat \ {0}
  OBVIOUS
<1>8. NumSlots \in Nat \ {0} /\ MaxId \in Nat \ {0}
  BY ConstantsAssumption
<1> QED
  BY <1>2, <1>3, <1>4, <1>5, <1>6, <1>7, <1>8 DEF C!CandidatesAssumption

\* Whether two claims clash does not depend on the unit of frequency.
LEMMA ScaledClash ==
  ASSUME GridAssumption, Domain \subseteq Nat, IsFiniteSet(Domain),
         NEW a, NEW b, NEW c, NEW d, NEW extra \in Nat,
         a.low \in Int, a.high \in Int, a.guard \in Nat,
         b.low \in Int, b.high \in Int, b.guard \in Nat,
         c.low = Anchor + a.low * Width, c.high = Anchor + a.high * Width,
         c.guard = a.guard * Width,
         d.low = Anchor + b.low * Width, d.high = Anchor + b.high * Width,
         d.guard = b.guard * Width
  PROVE  C!Clash(c, d, extra * Width) <=> Clash(a, b, extra)
<1> DEFINE g == GuardBetween(a, b)
           h == C!GuardBetween(c, d)
           k == g + extra
           P(x) == x * Width
<1>0. C!CandidatesAssumption /\ Anchor \in Nat /\ Width \in Nat \ {0}
  BY GridAssumed DEF GridAssumption
<1>1. \A x \in Int, y \in Int :
        /\ P(x) \in Int /\ P(x + y) = P(x) + P(y)
        /\ x < y <=> P(x) < P(y)
  BY <1>0, C!Products
<1>2. \A x \in Int, y \in Int : P(x - y) = P(x) - P(y)
  <2> SUFFICES ASSUME NEW x \in Int, NEW y \in Int PROVE P(x - y) = P(x) - P(y)
    OBVIOUS
  <2> DEFINE z == x - y
  <2>1. z \in Int /\ z + y = x
    OBVIOUS
  <2> HIDE DEF z, P
  <2>2. P(z + y) = P(z) + P(y) /\ P(z) \in Int /\ P(y) \in Int
    BY <1>1, <2>1
  <2>3. P(z) = P(x) - P(y)
    BY <2>1, <2>2
  <2> QED
    BY <2>3 DEF z
<1>3. /\ c.low = Anchor + P(a.low) /\ c.high = Anchor + P(a.high) /\ c.guard = P(a.guard)
      /\ d.low = Anchor + P(b.low) /\ d.high = Anchor + P(b.high) /\ d.guard = P(b.guard)
  OBVIOUS
<1> HIDE DEF P
<1>4. g \in Nat /\ h = P(g)
  <2> DEFINE x == a.guard
             y == b.guard
  <2>0. x \in Int /\ y \in Int
    OBVIOUS
  <2> HIDE DEF x, y
  <2>1. y > x <=> P(y) > P(x)
    <3>1. P(x) \in Int /\ P(y) \in Int /\ (x < y <=> P(x) < P(y))
      BY <1>1, <2>0
    <3> QED
      BY <2>0, <3>1
  <2>2. h = IF P(y) > P(x) THEN P(y) ELSE P(x)
    BY <1>3 DEF C!GuardBetween, x, y
  <2>3. g = IF y > x THEN y ELSE x
    BY DEF GuardBetween, x, y
  <2>4. x \in Nat /\ y \in Nat
    BY DEF x, y
  <2> HIDE DEF g, h
  <2> QED
    BY <2>1, <2>2, <2>3, <2>4
<1> HIDE DEF g, h
<1>5. k \in Int /\ h + P(extra) = P(k)
  BY <1>1, <1>4
<1> HIDE DEF k
<1>6. \A x \in Int, y \in Int : (Anchor + P(x)) - P(k) < Anchor + P(y) <=> x - k < y
  <2> SUFFICES ASSUME NEW x \in Int, NEW y \in Int
               PROVE  (Anchor + P(x)) - P(k) < Anchor + P(y) <=> x - k < y
    OBVIOUS
  <2>1. P(x) \in Int /\ P(y) \in Int /\ P(k) \in Int
    BY <1>1, <1>5
  <2>2. x - k \in Int
    BY <1>5
  <2>3. x - k < y <=> P(x - k) < P(y)
    BY <1>1, <2>2
  <2>4. P(x - k) = P(x) - P(k)
    BY <1>2, <1>5
  <2> QED
    BY <1>0, <2>1, <2>3, <2>4
<1>7. C!Clash(c, d, P(extra)) <=>
        /\ (Anchor + P(a.low)) - P(k) < Anchor + P(b.high)
        /\ (Anchor + P(b.low)) - P(k) < Anchor + P(a.high)
  BY <1>3, <1>5 DEF C!Clash, C!FrequencyConflict, h
<1>8. Clash(a, b, extra) <=> a.low - k < b.high /\ b.low - k < a.high
  BY DEF Clash, FrequencyConflict, g, k
<1>9. C!Clash(c, d, P(extra)) <=> Clash(a, b, extra)
  BY <1>6, <1>7, <1>8
<1> QED
  BY <1>9 DEF P

\* The hypotheses on the state under which the two are compared.
Comparable == TypeOK /\ LiveIndexExact /\ enforced = Exclusion

\* The fields of a claim of Fabric, and of a record.
LEMMA ScaledRecord ==
  ASSUME GridAssumption, Domain \subseteq Nat, IsFiniteSet(Domain), Comparable,
         NEW q \in Request, NEW s \in Nat, NEW i \in Id, NEW extra \in Nat
  PROVE  LET c == C!Claim(Asked(q), C!FrequencyOf(TheGrid, s, q.width))
         IN  C!Clash(c, OnGrid(reservations[i]), extra * Width)
               <=> Clash(Claim(q, s), reservations[i], extra)
<1> DEFINE f == C!FrequencyOf(TheGrid, s, q.width)
           c == C!Claim(Asked(q), f)
           a == Claim(q, s)
           b == reservations[i]
           d == OnGrid(b)
<1>1. b.low \in Nat /\ b.high \in Nat /\ b.guard \in Nat
  BY DEF Comparable, TypeOK, Table, Reservation
<1>2. d.low = Anchor + b.low * Width /\ d.high = Anchor + b.high * Width
        /\ d.guard = b.guard * Width
  BY DEF OnGrid
<1>3. a.low = s /\ a.high = s + q.width /\ a.guard = q.guard
  BY DEF Claim
<1>4. a.low \in Int /\ a.high \in Int /\ a.guard \in Nat
  BY <1>3, RequestFacts
<1>5. f.low = Anchor + s * Width /\ f.high = Anchor + (s + q.width) * Width
  BY DEF C!FrequencyOf, TheGrid
<1>6. c.low = f.low /\ c.high = f.high /\ c.guard = q.guard * Width
  BY DEF C!Claim, Asked
<1>7. /\ c.low = Anchor + a.low * Width /\ c.high = Anchor + a.high * Width
      /\ c.guard = a.guard * Width
  BY <1>3, <1>5, <1>6
<1> HIDE DEF a, b, c, d
<1>8. C!Clash(c, d, extra * Width) <=> Clash(a, b, extra)
  BY <1>1, <1>2, <1>4, <1>7, ScaledClash
<1> QED
  BY <1>8 DEF a, b, c, d, f

\* The same without an exclusion domain.
LEMMA ScaledRecordAlone ==
  ASSUME GridAssumption, Domain \subseteq Nat, IsFiniteSet(Domain), Comparable,
         NEW q \in Request, NEW s \in Nat, NEW i \in Id
  PROVE  LET c == C!Claim(Asked(q), C!FrequencyOf(TheGrid, s, q.width))
         IN  C!Clash(c, OnGrid(reservations[i]), 0) <=> Clash(Claim(q, s), reservations[i], 0)
<1>1. 0 * Width = 0
  BY DEF GridAssumption
<1>2. 0 \in Nat
  OBVIOUS
<1> QED
  BY <1>1, <1>2, ScaledRecord

\* A placement is free in the table of Fabric exactly when the enumeration
\* finds nobody in its way (crossDomainFree, evaluateCandidate).
LEMMA FreeIsUnowned ==
  ASSUME GridAssumption, Domain \subseteq Nat, IsFiniteSet(Domain), Comparable,
         NEW q \in Request, NEW s \in Nat
  PROVE  Free(Claim(q, s), Instant)
           <=> C!Unowned(Asked(q), C!FrequencyOf(TheGrid, s, q.width))
<1> DEFINE f == C!FrequencyOf(TheGrid, s, q.width)
           c == C!Claim(Asked(q), f)
           R(i) == OnGrid(reservations[i])
           Live == {i \in Id : LiveAt(reservations[i], Instant)}
           Hit(i, x) == Clash(Claim(q, s), reservations[i], x)
<1>1. \A i \in Id : C!Clash(c, R(i), 0) <=> Hit(i, 0)
  BY ScaledRecordAlone
<1>2. \A i \in Id, e \in Exclusion : C!Clash(c, R(i), e.guard * Width) <=> Hit(i, e.guard)
  BY ScaledRecord, ConstantsAssumption
<1>3. C!LiveIds = Live
  BY DEF C!LiveIds, C!Id, Id, OnGrid
<1>4. \A i \in Id : R(i).domains = reservations[i].domains
  BY DEF OnGrid
<1>5. \A d \in Domain, i \in Id : LiveAt(reservations[i], Instant) =>
        (i \in liveByDomain[d] <=> d \in reservations[i].domains)
  BY DEF Comparable, LiveIndexExact, LiveIndexOf, LiveAt
<1>6. \A d \in Domain : liveByDomain[d] \subseteq Id
  BY DEF Comparable, LiveIndexExact, LiveIndexOf
<1>7. q.domains \subseteq Domain /\ \A e \in Exclusion : e.members \subseteq Domain
  BY RequestFacts, ConstantsAssumption
<1>8. Claim(q, s).domains = q.domains /\ Asked(q).domains = q.domains
  BY DEF Claim, Asked
<1> DEFINE
      Alone == \A i \in Live : q.domains \cap reservations[i].domains # {} => ~Hit(i, 0)
      Across == \A i \in Live : \A e \in Exclusion :
                  \A d \in q.domains \cap e.members,
                     m \in reservations[i].domains \cap e.members :
                    d # m => ~Hit(i, e.guard)
<1>9. C!Unowned(Asked(q), f) <=> Alone /\ Across
  <2> DEFINE E(i) == \A e \in {Apart(x) : x \in Exclusion} :
                       \A d \in q.domains \cap e.members, m \in R(i).domains \cap e.members :
                         d # m => ~C!Clash(c, R(i), e.guard)
  <2>1. C!Unowned(Asked(q), f) <=>
          \A i \in Live : /\ q.domains \cap R(i).domains # {} => ~C!Clash(c, R(i), 0)
                          /\ E(i)
    BY <1>3, <1>8 DEF C!Unowned, C!ShareDomain, C!Id, Id
  <2>2. ASSUME NEW i \in Live
        PROVE  E(i) <=> \A e \in Exclusion : \A d \in q.domains \cap e.members,
                          m \in reservations[i].domains \cap e.members :
                            d # m => ~Hit(i, e.guard)
    <3>1. \A e \in Exclusion :
            Apart(e).members = e.members /\ Apart(e).guard = e.guard * Width
      BY DEF Apart
    <3> QED
      BY <1>2, <1>4, <2>2, <3>1
  <2> HIDE DEF E
  <2> QED
    BY <1>1, <1>4, <2>1, <2>2
<1>10. Free(Claim(q, s), Instant) <=> Alone /\ Across
  <2> DEFINE Here == \A d \in q.domains : \A i \in liveByDomain[d] :
                       LiveAt(reservations[i], Instant) => ~Hit(i, 0)
             There == \A d \in q.domains : \A e \in Exclusion : d \in e.members =>
                        \A m \in e.members \ {d} : \A i \in liveByDomain[m] :
                          LiveAt(reservations[i], Instant) => ~Hit(i, e.guard)
  <2>1. Free(Claim(q, s), Instant) <=> Here /\ There
    BY <1>8 DEF Free, Comparable
  <2>2. \A d \in Domain, i \in Id :
          i \in liveByDomain[d] /\ LiveAt(reservations[i], Instant)
            <=> i \in Live /\ d \in reservations[i].domains
    BY <1>5
  <2> HIDE DEF Hit, Live
  <2>3. Live \subseteq Id
    BY DEF Live
  <2>4. ASSUME Alone PROVE Here
    BY <1>6, <1>7, <2>2, <2>4
  <2>5. ASSUME Here PROVE Alone
    BY <1>7, <2>2, <2>3, <2>5
  <2>6. ASSUME Across PROVE There
    <3> SUFFICES ASSUME NEW d \in q.domains, NEW e \in Exclusion, d \in e.members,
                        NEW m \in e.members \ {d}, NEW i \in liveByDomain[m],
                        LiveAt(reservations[i], Instant)
                 PROVE  ~Hit(i, e.guard)
      OBVIOUS
    <3>1. m \in Domain /\ i \in Id
      BY <1>6, <1>7
    <3>2. i \in Live /\ m \in reservations[i].domains \cap e.members
      BY <2>2, <3>1
    <3>3. d \in q.domains \cap e.members /\ d # m
      OBVIOUS
    <3> QED
      BY <2>6, <3>2, <3>3
  <2>7. ASSUME There PROVE Across
    <3> SUFFICES ASSUME NEW i \in Live, NEW e \in Exclusion,
                        NEW d \in q.domains \cap e.members,
                        NEW m \in reservations[i].domains \cap e.members, d # m
                 PROVE  ~Hit(i, e.guard)
      OBVIOUS
    <3>1. i \in liveByDomain[m] /\ LiveAt(reservations[i], Instant)
      BY <1>7, <2>2, <2>3
    <3>2. m \in e.members \ {d} /\ d \in q.domains /\ d \in e.members
      OBVIOUS
    <3> QED
      BY <2>7, <3>1, <3>2
  <2> QED
    BY <2>1, <2>4, <2>5, <2>6, <2>7
<1> QED
  BY <1>9, <1>10 DEF f

\* What a request of Fabric is to the enumeration.
LEMMA AskedFacts ==
  ASSUME GridAssumption, Domain \subseteq Nat, IsFiniteSet(Domain), NEW q \in Request
  PROVE  /\ C!CandidatesAssumption /\ C!ValidGrid(TheGrid)
         /\ Asked(q) \in {Asked(p) : p \in Request}
         /\ Asked(q).domains = q.domains /\ Asked(q).grid = TheGrid
         /\ Asked(q).slots = q.width /\ Asked(q).apart = {} /\ ~Asked(q).fragments
         /\ Asked(q).windows = {} /\ Asked(q).excludedSlots = {}
         /\ Asked(q).excludedFrequencies = {}
         /\ q.domains \subseteq Domain /\ q.domains # {} /\ q.width \in Nat \ {0}
         /\ TheGrid.anchor = Anchor /\ TheGrid.width = Width /\ TheGrid.count = NumSlots
         /\ TheGrid.minSlots = 1 /\ TheGrid.maxSlots = NumSlots
         /\ NumSlots \in Nat \ {0}
<1>1. C!CandidatesAssumption
  BY GridAssumed
<1>2. C!ValidGrid(TheGrid)
  BY <1>1 DEF C!CandidatesAssumption
<1>3. q.domains # {}
  BY ConstantsAssumption DEF RequestType
<1> QED
  BY <1>1, <1>2, <1>3, RequestFacts, ConstantsAssumption DEF Asked, TheGrid

\* The table and the capabilities have the shape the enumeration relies on.
LEMMA OnGridShaped ==
  ASSUME GridAssumption, TypeOK
  PROVE  C!Shaped
<1>1. Anchor \in Nat \ {0} /\ Width \in Nat \ {0} /\ NumSlots \in Nat \ {0}
  BY ConstantsAssumption DEF GridAssumption
<1>2. \A n \in Nat : n * Width \in Nat
  BY <1>1
<1>3. AllOpen \in C!Capability
  <2>1. NumSlots * Width \in Nat
    BY <1>1, <1>2
  <2>2. AllOpen.tunable \in C!FrequencyRange
    BY <1>1, <2>1 DEF AllOpen, C!FrequencyRange
  <2>3. AllOpen.window \in C!SlotRange
    BY <1>1 DEF AllOpen, C!SlotRange
  <2> QED
    BY <2>2, <2>3 DEF AllOpen, C!Capability
<1>4. ASSUME NEW i \in Id
      PROVE  OnGrid(reservations[i]) \in C!Reservation
  <2> DEFINE r == reservations[i]
  <2>1. r.low \in Nat /\ r.high \in Nat /\ r.guard \in Nat /\ r.domains \in SUBSET Domain
    BY <1>4 DEF TypeOK, Table, Reservation
  <2> HIDE DEF r
  <2>2. r.low * Width \in Nat /\ r.high * Width \in Nat /\ r.guard * Width \in Nat
    BY <1>2, <2>1
  <2>3. Anchor + r.low * Width \in Nat \ {0} /\ Anchor + r.high * Width \in Nat \ {0}
    BY <1>1, <2>2
  <2>4. OnGrid(r).state \in {"None", "Live", "Ended"}
    BY DEF OnGrid
  <2> QED
    BY <2>1, <2>2, <2>3, <2>4 DEF OnGrid, C!Reservation, r
<1> QED
  BY <1>3, <1>4 DEF C!Shaped, C!Id, Id

\* Every domain offers every slot of the grid.
LEMMA FullWindow ==
  ASSUME GridAssumption, Domain \subseteq Nat, IsFiniteSet(Domain), NEW q \in Request,
         NEW d \in q.domains
  PROVE  C!WindowOf(Asked(q), d) # {}
<1> DEFINE tunable == AllOpen.tunable
           whole == C!FrequencyOf(TheGrid, 0, NumSlots)
<1>1. /\ C!CandidatesAssumption /\ C!ValidGrid(TheGrid) /\ Asked(q).grid = TheGrid
      /\ d \in Domain /\ NumSlots \in Nat \ {0} /\ TheGrid.count = NumSlots
      /\ TheGrid.anchor = Anchor /\ TheGrid.width = Width
  BY AskedFacts
<1>2. Anchor \in Nat /\ Width \in Nat /\ NumSlots * Width \in Nat /\ 0 * Width = 0
  BY <1>1 DEF GridAssumption
<1>3. tunable.low = Anchor /\ tunable.high = Anchor + NumSlots * Width
  BY DEF AllOpen
<1>4. whole.low = Anchor + 0 * Width /\ whole.high = Anchor + (0 + NumSlots) * Width
  BY <1>1 DEF C!FrequencyOf
<1>5. 0 + NumSlots = NumSlots
  BY <1>1
<1>6. C!Contains(tunable, whole) /\ tunable.low \in Int /\ tunable.high \in Int
  BY <1>2, <1>3, <1>4, <1>5 DEF C!Contains
<1> HIDE DEF tunable, whole
<1>7. C!Slots(0, NumSlots) \subseteq C!Inner(TheGrid, tunable)
  BY <1>1, <1>5, <1>6, C!InnerCovers, 0 \in Nat DEF whole
<1>8. C!WindowOf(Asked(q), d) = C!Slots(0, NumSlots) \cap C!Inner(TheGrid, tunable)
  BY <1>1 DEF C!WindowOf, AllOpen, tunable
<1>9. 0 \in C!Slots(0, NumSlots)
  BY <1>1 DEF C!Slots
<1> QED
  BY <1>7, <1>8, <1>9

\* Every domain a request names is on its grid, and nothing stands in the way
\* of looking at its candidates unless it is wider than the grid.
LEMMA AskedObstacle ==
  ASSUME GridAssumption, Domain \subseteq Nat, IsFiniteSet(Domain), NEW q \in Request
  PROVE  /\ C!Anchored(Asked(q)) = q.domains
         /\ C!Obstacle(Asked(q), {}) = "None" <=> q.width <= NumSlots
<1> DEFINE a == Asked(q)
           n == C!Preparation(a, {})
<1>1. /\ a.domains = q.domains /\ a.grid = TheGrid /\ a.slots = q.width
      /\ a.windows = {} /\ a.excludedSlots = {} /\ a.excludedFrequencies = {}
      /\ a.apart = {} /\ q.domains \subseteq Domain /\ q.domains # {}
      /\ q.width \in Nat \ {0} /\ NumSlots \in Nat \ {0}
      /\ TheGrid.minSlots = 1 /\ TheGrid.maxSlots = NumSlots
  BY AskedFacts
<1> HIDE DEF a
<1>2. \A d \in q.domains : ~C!ConversionRequired(a, d)
  BY <1>1 DEF C!ConversionRequired
<1>3. C!WellFormed(a)
  BY <1>1 DEF C!WellFormed
<1>4. C!ChannelWidthSupported(a.grid, a.slots) <=> q.width <= NumSlots
  BY <1>1 DEF C!ChannelWidthSupported
<1>5. \A d \in Domain : C!Trouble({}, d) = "None"
  BY DEF C!Trouble, AllOpen
<1>6. C!Troubled(a, {}) = {}
  BY <1>1, <1>5 DEF C!Troubled
<1>7. n = IF q.width <= NumSlots THEN "None" ELSE "RefusedChannelWidth"
  BY <1>1, <1>2, <1>4, <1>6 DEF C!Preparation
<1>8. C!Anchored(a) = q.domains
  BY <1>1, <1>2 DEF C!Anchored
<1>9. \A d \in q.domains : C!WindowOf(a, d) # {}
  BY <1>1, FullWindow DEF a
<1> HIDE DEF n
<1>10. C!Obstacle(a, {}) = "None" <=> n = "None"
  BY <1>3, <1>8, <1>9 DEF C!Obstacle, n
<1> QED
  BY <1>7, <1>8, <1>10 DEF a

\* The placements of Fabric are placements the enumeration counts as possible.
LEMMA PlacementPossible ==
  ASSUME GridAssumption, Domain \subseteq Nat, IsFiniteSet(Domain), Comparable,
         NEW q \in Request, NEW s \in Placements(q, Instant)
  PROVE  s \in C!Possible(Asked(q)) /\ s \in Nat /\ s + q.width <= NumSlots
<1> DEFINE a == Asked(q)
           f == C!FrequencyOf(TheGrid, s, q.width)
           w == q.width
           e == s + w
<1>1. /\ C!CandidatesAssumption /\ a.domains = q.domains /\ a.grid = TheGrid
      /\ a.slots = q.width /\ a.apart = {} /\ ~a.fragments /\ a.windows = {}
      /\ a.excludedSlots = {} /\ a.excludedFrequencies = {} /\ q.domains \subseteq Domain
      /\ w \in Nat \ {0} /\ NumSlots \in Nat \ {0} /\ TheGrid.count = NumSlots
      /\ TheGrid.minSlots = 1 /\ TheGrid.maxSlots = NumSlots
      /\ TheGrid.anchor = Anchor /\ TheGrid.width = Width
  BY AskedFacts
<1>2. Anchor \in Nat /\ Width \in Nat \ {0}
  BY DEF GridAssumption
<1>3. s \in 0..(NumSlots - q.width) /\ Free(Claim(q, s), Instant)
  BY DEF Placements
<1>4. s \in Nat /\ e \in Nat /\ e <= NumSlots /\ s <= NumSlots - 1
  BY <1>1, <1>3
<1>5. s \in C!SlotsOf(TheGrid)
  BY <1>1, <1>4 DEF C!SlotsOf
<1>6. C!Unowned(a, f)
  BY <1>3, <1>4, FreeIsUnowned
<1>7. f.low = Anchor + s * Width /\ f.high = Anchor + e * Width
  BY <1>1 DEF C!FrequencyOf
<1> HIDE DEF a, e
<1>8. /\ 0 * Width = 0 /\ 0 * Width <= s * Width /\ e * Width <= NumSlots * Width
      /\ s * Width \in Int /\ e * Width \in Int /\ NumSlots * Width \in Int
  <2>1. \A x \in Int, y \in Int : x * Width \in Int /\ (x <= y <=> x * Width <= y * Width)
    BY <1>1, <1>2, C!Products
  <2>2. s \in Int /\ e \in Int /\ NumSlots \in Int /\ 0 \in Int /\ 0 <= s
    BY <1>1, <1>4
  <2>3. 0 * Width = 0
    BY <1>2
  <2> QED
    BY <1>4, <2>1, <2>2, <2>3
<1>9. ASSUME NEW g, g.low = Anchor + 0 * Width, g.high = Anchor + NumSlots * Width
      PROVE  C!Contains(g, f)
  BY <1>2, <1>7, <1>8, <1>9 DEF C!Contains
<1> HIDE DEF f
<1>10. ASSUME NEW d \in q.domains
       PROVE  C!Contains(AllOpen.tunable, f) /\ C!Contains(C!AllocatableRange(d), f)
  <2>1. AllOpen.tunable.low = Anchor + 0 * Width
    BY <1>2, <1>8 DEF AllOpen
  <2>2. AllOpen.tunable.high = Anchor + NumSlots * Width
    BY DEF AllOpen
  <2>3. 0 + NumSlots = NumSlots
    BY <1>1
  <2>4. d \in Domain
    BY <1>1
  <2>5. /\ C!AllocatableRange(d).low = Anchor + 0 * Width
        /\ C!AllocatableRange(d).high = Anchor + NumSlots * Width
    BY <1>1, <2>3, <2>4 DEF C!AllocatableRange, C!FrequencyOf, AllOpen
  <2> QED
    BY <1>9, <2>1, <2>2, <2>5
<1>11. C!IsChannelOf(TheGrid, f)
  <2>1. w \in TheGrid.minSlots..TheGrid.maxSlots
    BY <1>1, <1>4 DEF e
  <2> QED
    BY <1>1, <1>4, <1>5, <2>1 DEF C!IsChannelOf, f, e
<1>12. C!Admissible(a, f)
  BY <1>1, <1>10, <1>11 DEF C!Admissible
<1>13. C!InEveryWindow(a, f)
  BY <1>1, <1>10 DEF C!InEveryWindow
<1>14. C!KeptApart(a, f)
  BY <1>1 DEF C!KeptApart
<1> QED
  BY <1>1, <1>4, <1>5, <1>6, <1>12, <1>13, <1>14 DEF C!Possible, a, f, e

\* What the enumeration selects is a placement of Fabric.
LEMMA SelectedPlacement ==
  ASSUME GridAssumption, Domain \subseteq Nat, IsFiniteSet(Domain), Comparable,
         NEW q \in Request, C!Conclusion(Asked(q), {}) = "Allocated"
  PROVE  C!Selected(Asked(q)) \in Placements(q, Instant)
<1> DEFINE a == Asked(q)
           s == C!Selected(a)
           f == C!FrequencyOf(TheGrid, s, q.width)
<1>1. /\ C!CandidatesAssumption /\ a \in {Asked(p) : p \in Request} /\ a.grid = TheGrid
      /\ a.slots = q.width /\ TheGrid.count = NumSlots /\ NumSlots \in Nat
      /\ q.width \in Nat
  BY AskedFacts
<1> HIDE DEF a
<1>2. s \in Nat /\ s + a.slots <= a.grid.count /\ C!Verdict(a, s) = "Allocated"
  BY <1>1, C!GrantedPlace DEF a
<1> HIDE DEF s
<1>3. \A d \in a.domains : C!Owners(a, d, f) = {}
  BY <1>1, <1>2, C!VerdictOutcomes
<1>4. C!Unowned(a, f)
  BY <1>1, <1>3, C!NoOwnerNoClash
<1>5. Free(Claim(q, s), Instant)
  BY <1>2, <1>4, FreeIsUnowned DEF a
<1>6. s \in 0..(NumSlots - q.width)
  BY <1>1, <1>2
<1> QED
  BY <1>5, <1>6 DEF Placements, s, a

\* With the exclusion domains in force, the enumeration grants a request exactly
\* when Fabric has a placement for it, and selects the one Fabric takes.
PlacedByEnumeration ==
  enforced = Exclusion => \A q \in Request :
    /\ C!Conclusion(Asked(q), {}) = "Allocated" <=> Placements(q, Instant) # {}
    /\ Placements(q, Instant) # {} => C!Selected(Asked(q)) = FirstFit(q, Instant)

\* Fabric takes for a placement the first slot at which a claim is free; the
\* enumeration rounds frequencies to slots, merges, cuts and widens lists of
\* them and selects from the list. On one grid, of any anchor and slot width,
\* the two agree in every state of the runtime and at every instant.
THEOREM FirstFitIsSelected ==
  ASSUME GridAssumption, Domain \subseteq Nat, IsFiniteSet(Domain)
  PROVE  Spec => []PlacedByEnumeration
<1>1. ASSUME TypeOK, LiveIndexExact, enforced = Exclusion, NEW q \in Request
      PROVE  /\ C!Conclusion(Asked(q), {}) = "Allocated" <=> Placements(q, Instant) # {}
             /\ Placements(q, Instant) # {} =>
                  C!Selected(Asked(q)) = FirstFit(q, Instant)
  <2> DEFINE a == Asked(q)
             P == Placements(q, Instant)
             allocated == C!Conclusion(a, {}) = "Allocated"
             s == C!Selected(a)
  <2>1. Comparable
    BY <1>1 DEF Comparable
  <2>2. /\ C!CandidatesAssumption /\ a \in {Asked(p) : p \in Request} /\ a.grid = TheGrid
        /\ TheGrid.count = NumSlots /\ NumSlots \in Nat /\ q.domains # {}
    BY AskedFacts
  <2>3. allocated => s \in P
    BY <2>1, SelectedPlacement
  <2>4. ASSUME NEW p \in P
        PROVE  p \in C!Eligible(a) /\ C!Obstacle(a, {}) = "None" /\ p \in Nat
    <3>1. p \in C!Possible(a) /\ p \in Nat /\ p + q.width <= NumSlots
      BY <2>1, PlacementPossible
    <3>2. q.width <= NumSlots
      BY <2>2, <3>1, RequestFacts
    <3>3. C!Obstacle(a, {}) = "None" /\ C!Anchored(a) # {}
      BY <2>2, <3>2, AskedObstacle
    <3>4. ~C!CutOff(a, p)
      <4>1. a.grid.count <= NumSlots
        BY <2>2
      <4>2. p \in C!SlotsOf(a.grid)
        BY <3>1 DEF C!Possible
      <4> QED
        BY <2>2, <4>1, <4>2, C!RoomForAll
    <3>5. C!Shaped
      BY <1>1, OnGridShaped
    <3>6. p \in C!Eligible(a)
      BY <2>2, <3>1, <3>3, <3>4, <3>5, C!PossibleEligible
    <3> QED
      BY <3>1, <3>3, <3>6
  <2> HIDE DEF a, P
  <2>5. allocated <=> C!Obstacle(a, {}) = "None" /\ C!Eligible(a) # {}
    BY <2>2, C!Granted
  <2>6. allocated <=> P # {}
    BY <2>3, <2>4, <2>5
  <2>7. ASSUME allocated
        PROVE  s \in P /\ \A p \in P : s <= p
    <3>1. \A p \in C!Eligible(a) : s <= p
      BY <2>2, <2>5, <2>7, C!SelectedIsEligible
    <3> QED
      BY <2>3, <2>4, <2>7, <3>1
  <2>8. ASSUME P # {}
        PROVE  s = CHOOSE x \in P : \A y \in P : x <= y
    <3>1. s \in P /\ \A p \in P : s <= p
      BY <2>6, <2>7, <2>8
    <3>2. \A x \in P, y \in P : x <= y /\ y <= x => x = y
      BY <2>4
    <3> QED
      BY <3>1, <3>2
  <2> QED
    BY <2>6, <2>8 DEF FirstFit, P, a
<1>2. TypeOK /\ LiveIndexExact => PlacedByEnumeration
  BY <1>1 DEF PlacedByEnumeration
<1> QED
  BY <1>2, TypeCorrect, LiveIndexCorrect, PTL
=============================================================================
