------------------------- MODULE FabricIdentityProofs -------------------------
(***************************************************************************)
(* Proofs about identities in Fabric: the request index names the live     *)
(* reservation of every request identity, a reservation identity stands    *)
(* for one request only, and a request is granted once, through failed     *)
(* writes, prunes, crashes and recoveries.                                 *)
(***************************************************************************)
EXTENDS FabricProofs

-----------------------------------------------------------------------------
(* Records and the requests they serve                                     *)

\* The record s is what has become of the record r: nothing at all, or a
\* record of the same request that is live only if r was.
Follows(s, r) ==
  \/ s.state = "None" /\ s.request = 0
  \/ /\ s.state # "None" /\ r.state # "None"
     /\ s.request = r.request /\ s.requestGeneration = r.requestGeneration
     /\ IsLiveState(s.state) => IsLiveState(r.state)

Descends(u, t) == \A i \in Id : Follows(u[i], t[i])

\* Records, and nothing else, carry a request.
Labelled(t) == \A i \in Id : t[i].state = "None" <=> t[i].request = 0

\* A live record is the newest of its request.
NewestLive(t) ==
  \A i, j \in Id : IsLiveState(t[i].state) /\ t[j].request = t[i].request => j <= i

\* The index names the live record of a request.
Tracks(index, t) ==
  \A i \in Id : IsLiveState(t[i].state) => index[t[i].request] = i

\* What the index names is older than `next`, and is a record of the request
\* or none at all.
Points(index, t, next) ==
  \A k \in RequestId : index[k] # 0 =>
    /\ index[k] < next
    /\ t[index[k]].state = "None" \/ t[index[k]].request = k

\* The grants are older than `next`, and name records of their request.
GrantsMatch(grants, t, next) ==
  \A g \in grants :
    /\ g.id < next
    /\ \/ t[g.id].state = "None"
       \/ t[g.id].request = g.request /\ t[g.id].requestGeneration = g.generation

\* The inductive invariant behind RequestIndexTracksLive and IdNeverReused. The
\* image is in it because a recovery rebuilds the index from it and starts
\* minting identities where it left off.
IdentityInv ==
  /\ IndexInv
  /\ Labelled(reservations) /\ Labelled(disk.reservations)
  /\ NewestLive(reservations) /\ NewestLive(disk.reservations)
  /\ Tracks(requestIndex, reservations)
  /\ Points(requestIndex, reservations, nextReservationId)
  /\ Durable => Descends(reservations, disk.reservations)
  /\ ~Durable => granted = {}
  /\ GrantsMatch(granted, reservations, nextReservationId)
  /\ GrantsMatch(granted, disk.reservations, disk.nextReservationId)
  /\ IdNeverReused

\* Descent is reflexive.
LEMMA DescendsReflexive ==
  ASSUME NEW t, Labelled(t)
  PROVE  Descends(t, t)
BY DEF Labelled, Descends, Follows

\* What follows from what follows, follows.
LEMMA FollowsTransitive ==
  ASSUME NEW r, NEW s, NEW x, Follows(x, s), Follows(s, r)
  PROVE  Follows(x, r)
BY DEF Follows

\* Descent is transitive.
LEMMA DescendsTransitive ==
  ASSUME NEW t, NEW u, NEW v, Descends(v, u), Descends(u, t)
  PROVE  Descends(v, t)
BY FollowsTransitive DEF Descends

\* What is true of the records of a table is true of what becomes of them.
LEMMA Descent ==
  ASSUME NEW t, NEW u, Descends(u, t), Labelled(t)
  PROVE  /\ Labelled(u)
         /\ NewestLive(t) => NewestLive(u)
<1>1. \A i \in Id : Follows(u[i], t[i])
  BY DEF Descends
<1>2. \A i \in Id : t[i].state = "None" <=> t[i].request = 0
  BY DEF Labelled
<1>3. Labelled(u)
  BY <1>1, <1>2 DEF Labelled, Follows
<1>4. ASSUME NewestLive(t), NEW i \in Id, NEW j \in Id,
             IsLiveState(u[i].state), u[j].request = u[i].request
      PROVE  j <= i
  <2>1. u[i].state # "None"
    BY <1>4, NotLive
  <2>2. t[i].request = u[i].request /\ t[i].request # 0 /\ IsLiveState(t[i].state)
    BY <1>1, <1>2, <1>4, <2>1 DEF Follows
  <2>3. t[j].request = u[j].request
    BY <1>1, <1>4, <2>2 DEF Follows
  <2> QED
    BY <1>4, <2>2, <2>3 DEF NewestLive
<1> QED
  BY <1>3, <1>4 DEF NewestLive

\* The grants of a table are grants of what becomes of it.
LEMMA GrantsDescend ==
  ASSUME NEW t, NEW u, NEW grants \in SUBSET Grant, NEW next \in Nat, NEW later \in Nat,
         next <= later, GrantsMatch(grants, t, next), Descends(u, t)
  PROVE  GrantsMatch(grants, u, later)
<1> SUFFICES ASSUME NEW g \in grants
             PROVE  /\ g.id < later
                    /\ \/ u[g.id].state = "None"
                       \/ u[g.id].request = g.request
                          /\ u[g.id].requestGeneration = g.generation
  BY DEF GrantsMatch
<1>1. g.id \in Id /\ g.id \in Nat
  BY DEF Grant, Id
<1>2. g.id < next /\ Follows(u[g.id], t[g.id])
  BY <1>1 DEF GrantsMatch, Descends
<1>3. g.id < later
  BY <1>1, <1>2
<1> QED
  BY <1>2, <1>3 DEF GrantsMatch, Follows

-----------------------------------------------------------------------------
(* Steps that mint nothing                                                 *)

\* The index entry of k is dropped together with the record it names.
EntryDropped(k) ==
  /\ requestIndex[k] # 0 /\ requestIndex'[k] = 0
  /\ reservations[requestIndex[k]].request = k
  /\ reservations[requestIndex[k]].state # "None"
  /\ reservations'[requestIndex[k]].state = "None"

\* A step that inserts no record, loads no image and tells a client nothing:
\* records change or go, and the image is left alone or follows.
Shrinks ==
  /\ Descends(reservations', reservations)
  /\ nextReservationId <= nextReservationId'
  /\ granted' = granted
  /\ \A k \in RequestId : requestIndex'[k] = requestIndex[k] \/ EntryDropped(k)
  /\ \/ disk' = disk
     \/ /\ disk'.present
        /\ disk'.reservations = reservations'
        /\ disk'.nextReservationId = nextReservationId'

\* Such a step keeps the invariant.
LEMMA ShrinksIdentity ==
  ASSUME IdentityInv, IndexInv', Shrinks
  PROVE  IdentityInv'
<1> USE DEF IdentityInv
<1>0. /\ nextReservationId \in Nat /\ nextReservationId' \in Nat
      /\ granted \in SUBSET Grant /\ requestIndex \in [RequestId -> Id \cup {0}]
      /\ reservations \in Table
  BY DEF IndexInv, TypeOK
<1>1. Descends(reservations', reservations) /\ nextReservationId <= nextReservationId'
  BY DEF Shrinks
<1>2. Labelled(reservations') /\ NewestLive(reservations')
  BY <1>1, Descent
<1>3. Tracks(requestIndex', reservations')
  <2> SUFFICES ASSUME NEW i \in Id, IsLiveState(reservations'[i].state)
               PROVE  requestIndex'[reservations'[i].request] = i
    BY DEF Tracks
  <2>1. /\ reservations'[i].state # "None"
        /\ reservations[i].request = reservations'[i].request
        /\ IsLiveState(reservations[i].state) /\ reservations[i].state # "None"
    BY <1>1, NotLive DEF Descends, Follows
  <2>2. reservations[i].request \in RequestId
    BY <1>0, <2>1 DEF Labelled, Table, Reservation
  <2>3. requestIndex[reservations[i].request] = i
    BY <2>1 DEF Tracks
  <2> QED
    BY <2>1, <2>2, <2>3 DEF Shrinks, EntryDropped
<1>4. Points(requestIndex', reservations', nextReservationId')
  <2> SUFFICES ASSUME NEW k \in RequestId, requestIndex'[k] # 0
               PROVE  /\ requestIndex'[k] < nextReservationId'
                      /\ \/ reservations'[requestIndex'[k]].state = "None"
                         \/ reservations'[requestIndex'[k]].request = k
    BY DEF Points
  <2>1. requestIndex'[k] = requestIndex[k] /\ requestIndex[k] \in Id
    BY <1>0 DEF Shrinks, EntryDropped
  <2>2. /\ requestIndex[k] < nextReservationId
        /\ \/ reservations[requestIndex[k]].state = "None"
           \/ reservations[requestIndex[k]].request = k
    BY <2>1 DEF Points
  <2>3. Follows(reservations'[requestIndex[k]], reservations[requestIndex[k]])
    BY <1>1, <2>1 DEF Descends
  <2>4. requestIndex[k] < nextReservationId'
    BY <1>0, <1>1, <2>1, <2>2 DEF Id
  <2> QED
    BY <2>1, <2>2, <2>3, <2>4 DEF Follows
<1>5. GrantsMatch(granted', reservations', nextReservationId')
  <2>1. GrantsMatch(granted, reservations', nextReservationId')
    BY <1>0, <1>1, GrantsDescend
  <2> QED
    BY <2>1 DEF Shrinks
<1>6. CASE disk' = disk
  <2>1. Durable => Descends(reservations', disk'.reservations)
    BY <1>1, <1>6, DescendsTransitive
  <2> QED
    BY <1>2, <1>3, <1>4, <1>5, <1>6, <2>1 DEF Shrinks, IdNeverReused
<1>7. CASE /\ disk'.reservations = reservations'
           /\ disk'.nextReservationId = nextReservationId'
  <2>1. Descends(reservations', disk'.reservations)
    BY <1>2, <1>7, DescendsReflexive
  <2> QED
    BY <1>2, <1>3, <1>4, <1>5, <1>7, <2>1 DEF Shrinks, IdNeverReused
<1> QED
  BY <1>6, <1>7 DEF Shrinks

\* Whatever a call makes of the table, the image is left alone or follows.
LEMMA PersistFollows ==
  ASSUME NEW stands, Persist(stands)
  PROVE  \/ disk' = disk
         \/ /\ disk'.present
            /\ disk'.reservations = reservations'
            /\ disk'.nextReservationId = nextReservationId'
BY DEF Persist, ImageOf

\* A step that leaves the records, the index and the counters alone.
LEMMA QuietShrinks ==
  ASSUME IdentityInv,
         UNCHANGED <<reservations, nextReservationId, requestIndex, granted>>,
         \/ disk' = disk
         \/ /\ disk'.present
            /\ disk'.reservations = reservations'
            /\ disk'.nextReservationId = nextReservationId'
  PROVE  Shrinks
<1>1. nextReservationId \in Nat
  BY DEF IdentityInv, IndexInv, TypeOK
<1> QED
  BY <1>1, DescendsReflexive DEF IdentityInv, Shrinks

\* A prune drops terminal records, and the entries that name them.
LEMMA PruneDescends ==
  ASSUME NEW t \in Table, Labelled(t)
  PROVE  Descends(AfterPrune(t), t)
<1>1. NoReservation.state = "None" /\ NoReservation.request = 0
  BY DEF NoReservation
<1> QED
  BY <1>1, PruneTerminal DEF Descends, Follows, Labelled

\* A prune leaves an entry of the request index alone, or drops it.
LEMMA PruneIndexEntries ==
  ASSUME NEW t \in Table, NEW index \in [RequestId -> Id \cup {0}], NEW k \in RequestId
  PROVE  \/ IndexAfterPrune(index, t)[k] = index[k]
         \/ /\ IndexAfterPrune(index, t)[k] = 0 /\ index[k] \in Id
            /\ t[index[k]].request = k /\ IsTerminalState(t[index[k]].state)
            /\ AfterPrune(t)[index[k]] = NoReservation
BY DEF IndexAfterPrune, AfterPrune, Pruned

\* An operation on one reservation, and a sweep, are such steps.
LEMMA OneReservationShrinks ==
  ASSUME IdentityInv, NEW i \in Id, OneReservation(i)
  PROVE  Shrinks
<1>1. PICK now \in Instants, stands \in Outcome, r \in Reservation :
        /\ Settle(i, r, now, stands)
        /\ IsLiveState(reservations[i].state)
        /\ r.request = reservations[i].request /\ r.state # "None"
        /\ r.requestGeneration = reservations[i].requestGeneration
  BY OneReservationSettles DEF IdentityInv, IndexInv
<1>2. reservations \in Table /\ nextReservationId \in Nat /\ Labelled(reservations)
  BY DEF IdentityInv, IndexInv, TypeOK
<1>3. \A j \in Id : reservations'[j] = IF stands /\ j = i THEN r ELSE reservations[j]
  BY <1>1, <1>2 DEF Settle, Table
<1>4. Follows(r, reservations[i])
  BY <1>1, NotLive DEF Follows
<1>5. \A j \in Id : Follows(reservations[j], reservations[j])
  BY <1>2, DescendsReflexive DEF Descends
<1>6. Descends(reservations', reservations)
  BY <1>3, <1>4, <1>5 DEF Descends
<1>7. Persist(stands) /\ UNCHANGED <<nextReservationId, requestIndex, granted>>
  BY <1>1 DEF Settle
<1> QED
  BY <1>2, <1>6, <1>7, PersistFollows DEF Shrinks

\* A sweep only ends reservations, whether or not it can be made durable.
LEMMA SweepsShrink ==
  ASSUME IdentityInv, Sweeps
  PROVE  Shrinks
<1> PICK now \in Instants, stands \in Outcome :
      ExpireLeases(now, stands) \/ ReclaimExpired(now, stands)
  BY DEF Sweeps
<1> DEFINE marked   == MarkLapsed(reservations, now)
           unmarked == UnmarkLapsed(reservations, now)
           back     == Reclaimed(marked, now)
<1>1. now \in Nat /\ reservations \in Table /\ marked \in Table /\ Labelled(reservations)
      /\ nextReservationId \in Nat
  BY TypeFacts, SweptTableType DEF IdentityInv, IndexInv, TypeOK
<1>2. \A r \in Reservation : \A s \in {"Expired", "Reclaimed"} : r.state # "None" =>
        /\ Follows([r EXCEPT !.state = s, !.updatedAt = now], r)
        /\ Follows([r EXCEPT !.state = s], r)
  BY NotLive DEF Follows, Reservation
<1>3. \A i \in Lapsed(reservations, now) : reservations[i].state # "None"
  BY NotLive DEF Lapsed
<1>4. \A i \in Id : Follows(reservations[i], reservations[i])
  BY <1>1, DescendsReflexive DEF Descends
<1>5. Descends(marked, reservations) /\ Descends(unmarked, reservations)
  BY <1>1, <1>2, <1>3, <1>4 DEF Descends, MarkLapsed, UnmarkLapsed, Table
<1>6. Labelled(marked)
  BY <1>1, <1>5, Descent
<1>7. Descends(back, marked)
  <2>1. \A i \in Id : Follows(marked[i], marked[i])
    BY <1>6, DescendsReflexive DEF Descends
  <2> HIDE DEF marked
  <2> QED
    BY <1>1, <1>2, <2>1 DEF Descends, Reclaimed, Table
<1>8. Descends(back, reservations)
  BY <1>5, <1>7, DescendsTransitive
<1>9. /\ reservations' \in {marked, unmarked, back}
      /\ Persist(stands) /\ UNCHANGED <<nextReservationId, requestIndex, granted>>
  <2>1. \/ Sweep(marked, unmarked, now, stands)
        \/ Sweep(back, marked, now, stands)
    BY DEF ExpireLeases, ReclaimExpired
  <2> HIDE DEF marked, unmarked, back
  <2> QED
    BY <2>1 DEF Sweep
<1>10. Descends(reservations', reservations)
  <2> HIDE DEF marked, unmarked, back
  <2> QED
    BY <1>5, <1>8, <1>9
<1> QED
  BY <1>1, <1>9, <1>10, PersistFollows DEF Shrinks

\* An allocation abandoned after its prune is such a step.
LEMMA AbandonedShrinks ==
  ASSUME IdentityInv, NEW q \in Request, NEW now \in Instants, AllocateAbandoned(q, now)
  PROVE  Shrinks
<1>1. /\ reservations \in Table /\ nextReservationId \in Nat /\ Labelled(reservations)
      /\ requestIndex \in [RequestId -> Id \cup {0}]
  BY DEF IdentityInv, IndexInv, TypeOK
<1>2. /\ reservations' = AfterPrune(reservations)
      /\ requestIndex' = IndexAfterPrune(requestIndex, reservations)
      /\ UNCHANGED <<nextReservationId, disk, granted>>
  BY DEF AllocateAbandoned
<1>3. Descends(reservations', reservations)
  BY <1>1, <1>2, PruneDescends
<1>4. ASSUME NEW k \in RequestId
      PROVE  requestIndex'[k] = requestIndex[k] \/ EntryDropped(k)
  <2>1. NoReservation.state = "None" /\ ~IsTerminalState("None") /\ 0 \notin Id
    BY DEF NoReservation, IsTerminalState, Id
  <2> QED
    BY <1>1, <1>2, <2>1, PruneIndexEntries DEF EntryDropped
<1> QED
  BY <1>1, <1>2, <1>3, <1>4 DEF Shrinks

-----------------------------------------------------------------------------
(* Commits                                                                 *)

\* What a commit leaves of the records that were there: each of them follows
\* what it was, whether the commit stands or is taken back.
LEMMA CommitFollows ==
  ASSUME IdentityInv, nextReservationId \in Id, NEW q \in Request, NEW now \in Nat,
         NEW index, Placements(q, now) # {}
  PROVE  LET t    == AfterPrune(reservations)
             ins  == Inserted(q, now, t, index)
             u    == AfterPrune(ins)
             back == RolledBack(q, now, t, index)
             n    == nextReservationId
         IN  /\ t \in Table /\ ins \in Table
             /\ Labelled(t) /\ Labelled(ins) /\ Labelled(u)
             /\ Descends(t, reservations) /\ Descends(u, ins)
             /\ Descends(back, reservations)
             /\ \A i \in Id \ {n} : Follows(ins[i], t[i]) /\ Follows(u[i], reservations[i])
<1> DEFINE t    == AfterPrune(reservations)
           ins  == Inserted(q, now, t, index)
           u    == AfterPrune(ins)
           back == RolledBack(q, now, t, index)
           n    == nextReservationId
           gone == Superseded(q, t, index)
<1>1. reservations \in Table /\ t \in Table /\ ins \in Table /\ Labelled(reservations)
  BY PruneTerminal, CommittedTableType DEF IdentityInv, IndexInv, TypeOK
<1>2. Descends(t, reservations)
  BY <1>1, PruneDescends
<1>3. Labelled(t)
  BY <1>1, <1>2, Descent
<1>4. ins[n].state = "Reserved" /\ ins[n].request # 0
  <2>1. q.id # 0
    BY RequestFacts, ConstantsAssumption
  <2>2. ins[n] = NewReservation(q, now)
    BY DEF Inserted
  <2> QED
    BY <2>1, <2>2 DEF NewReservation
<1>5. \A i \in Id : Follows(t[i], t[i]) /\ Follows(t[i], reservations[i])
  BY <1>2, <1>3, DescendsReflexive DEF Descends
<1>6. ASSUME NEW i \in Id \ {n}
      PROVE  Follows(ins[i], t[i])
  <2>1. CASE i \in gone
    <3>1. IsLiveState(t[i].state) /\ t[i] \in Reservation
      BY <1>1, <2>1 DEF Superseded, Table
    <3>2. ins[i] = [t[i] EXCEPT !.state = "Superseded", !.updatedAt = now]
      BY <2>1 DEF Inserted
    <3>3. /\ ins[i].state = "Superseded" /\ ins[i].request = t[i].request
          /\ ins[i].requestGeneration = t[i].requestGeneration
      BY <3>1, <3>2 DEF Reservation
    <3> HIDE DEF t, ins
    <3> QED
      BY <3>1, <3>3, NotLive DEF Follows
  <2>2. CASE i \notin gone
    <3>1. ins[i] = t[i]
      BY <2>2 DEF Inserted
    <3> HIDE DEF t, ins
    <3> QED
      BY <1>5, <3>1
  <2> QED
    BY <2>1, <2>2
<1>7. Labelled(ins)
  <2> HIDE DEF t, ins
  <2> QED
    BY <1>3, <1>4, <1>6 DEF Labelled, Follows
<1>8. Descends(u, ins)
  BY <1>1, <1>7, PruneDescends
<1>9. Labelled(u)
  BY <1>7, <1>8, Descent
<1>10. \A i \in Id \ {n} : Follows(u[i], reservations[i])
  <2> HIDE DEF t, ins, u
  <2> QED
    BY <1>5, <1>6, <1>8, FollowsTransitive DEF Descends
<1>11. Descends(back, reservations)
  <2>1. Follows(back[n], reservations[n])
    BY DEF RolledBack, NoReservation, Follows
  <2>2. \A i \in Id \ {n} : back[i] = t[i] \/ back[i] = u[i]
    BY DEF RolledBack
  <2> HIDE DEF t, u, back
  <2> QED
    BY <1>5, <1>10, <2>1, <2>2 DEF Descends
<1> QED
  BY <1>1, <1>2, <1>3, <1>6, <1>7, <1>8, <1>9, <1>10, <1>11

\* The index entries of a commit, before and after it is known to stand.
LEMMA CommitEntries ==
  ASSUME IdentityInv, NEW q \in Request, NEW now \in Nat, Placements(q, now) # {},
         nextReservationId \in Id
  PROVE  LET t     == AfterPrune(reservations)
             index == IndexAfterPrune(requestIndex, reservations)
             ins   == Inserted(q, now, t, index)
             after == CommittedIndex(q, now, t, index)
             n     == nextReservationId
         IN  /\ index \in [RequestId -> Id \cup {0}]
             /\ after \in [RequestId -> Id \cup {0}]
             /\ after[q.id] = n
             /\ \A k \in RequestId :
                  \/ index[k] = requestIndex[k]
                  \/ /\ index[k] = 0 /\ requestIndex[k] \in Id
                     /\ reservations[requestIndex[k]].request = k
                     /\ IsTerminalState(reservations[requestIndex[k]].state)
                     /\ t[requestIndex[k]] = NoReservation
             /\ \A k \in RequestId \ {q.id} :
                  \/ after[k] = index[k]
                  \/ /\ after[k] = 0 /\ index[k] \in Id
                     /\ ins[index[k]].request = k /\ IsTerminalState(ins[index[k]].state)
                     /\ AfterPrune(ins)[index[k]] = NoReservation
<1> DEFINE t     == AfterPrune(reservations)
           index == IndexAfterPrune(requestIndex, reservations)
           ins   == Inserted(q, now, t, index)
           after == CommittedIndex(q, now, t, index)
           n     == nextReservationId
           given == [index EXCEPT ![q.id] = n]
<1>1. /\ reservations \in Table /\ requestIndex \in [RequestId -> Id \cup {0}]
      /\ q.id \in RequestId
  BY RequestFacts DEF IdentityInv, IndexInv, TypeOK
<1>2. index \in [RequestId -> Id \cup {0}]
  BY <1>1, PruneIndexType
<1>3. given \in [RequestId -> Id \cup {0}]
  BY <1>2
<1>4. ins \in Table
  BY CommitFollows
<1>5. ins[n].state = "Reserved"
  BY DEF Inserted, NewReservation
<1>6. ~IsTerminalState("Reserved")
  BY DEF IsTerminalState
<1>7. after = IndexAfterPrune(given, ins)
  BY DEF CommittedIndex
<1>8. \A k \in RequestId : given[k] = IF k = q.id THEN n ELSE index[k]
  BY <1>2
<1>9. \A k \in RequestId :
        \/ index[k] = requestIndex[k]
        \/ /\ index[k] = 0 /\ requestIndex[k] \in Id
           /\ reservations[requestIndex[k]].request = k
           /\ IsTerminalState(reservations[requestIndex[k]].state)
           /\ t[requestIndex[k]] = NoReservation
  BY <1>1, PruneIndexEntries
<1> HIDE DEF given, ins, index
<1>10. after \in [RequestId -> Id \cup {0}]
  BY <1>3, <1>7, PruneIndexType
<1>11. \A k \in RequestId :
         \/ after[k] = given[k]
         \/ /\ after[k] = 0 /\ given[k] \in Id
            /\ ins[given[k]].request = k /\ IsTerminalState(ins[given[k]].state)
            /\ AfterPrune(ins)[given[k]] = NoReservation
  BY <1>3, <1>4, <1>7, PruneIndexEntries
<1> HIDE DEF after, t
<1>12. after[q.id] = n
  BY <1>1, <1>5, <1>6, <1>8, <1>11
<1> QED
  BY <1>2, <1>8, <1>9, <1>10, <1>11, <1>12 DEF index, ins, after, t

\* A commit that is taken back mints an identity nobody is told of, and is
\* otherwise a step that only drops records.
LEMMA TakenBackShrinks ==
  ASSUME IdentityInv, NEW q \in Request, NEW now \in Instants,
         AllocateCommit(q, now, FALSE)
  PROVE  Shrinks
<1> DEFINE t     == AfterPrune(reservations)
           index == IndexAfterPrune(requestIndex, reservations)
           ins   == Inserted(q, now, t, index)
           u     == AfterPrune(ins)
           back  == RolledBack(q, now, t, index)
           after == CommittedIndex(q, now, t, index)
           n     == nextReservationId
           gone  == Superseded(q, t, index)
<1>1. now \in Nat /\ n \in Id /\ n \in Nat /\ Placements(q, now) # {} /\ q.id \in RequestId
  BY TypeFacts, RequestFacts DEF AllocateCommit, Eligible, IdentityInv, IndexInv, Id
<1>2. /\ reservations' = back
      /\ requestIndex' = [after EXCEPT ![q.id] = index[q.id]]
      /\ nextReservationId' = n + 1
      /\ granted' = granted
      /\ disk' = disk
  BY DEF AllocateCommit, Persist
<1>3. /\ Descends(back, reservations) /\ Descends(t, reservations)
      /\ \A i \in Id \ {n} : Follows(ins[i], t[i])
  BY <1>1, CommitFollows
<1>4. /\ after \in [RequestId -> Id \cup {0}]
      /\ \A k \in RequestId :
           \/ index[k] = requestIndex[k]
           \/ /\ index[k] = 0 /\ requestIndex[k] \in Id
              /\ reservations[requestIndex[k]].request = k
              /\ IsTerminalState(reservations[requestIndex[k]].state)
              /\ t[requestIndex[k]] = NoReservation
      /\ \A k \in RequestId \ {q.id} :
           \/ after[k] = index[k]
           \/ /\ after[k] = 0 /\ index[k] \in Id
              /\ ins[index[k]].request = k /\ IsTerminalState(ins[index[k]].state)
              /\ u[index[k]] = NoReservation
  BY <1>1, CommitEntries
<1>5. /\ back[n] = NoReservation
      /\ \A i \in Id \ {n} : back[i] = IF i \in gone THEN t[i] ELSE u[i]
  BY <1>1 DEF RolledBack
<1>6. \A i \in gone : index[q.id] = i /\ IsLiveState(t[i].state)
  BY DEF Superseded
<1>7. \A i \in Id : IsLiveState(t[i].state) => t[i] = reservations[i]
  BY PruneKeepsLive DEF IdentityInv, IndexInv, TypeOK
<1>8. \A k \in RequestId : requestIndex[k] # 0 =>
        /\ requestIndex[k] < n
        /\ \/ reservations[requestIndex[k]].state = "None"
           \/ reservations[requestIndex[k]].request = k
  BY DEF IdentityInv, Points
<1>9. /\ NoReservation.state = "None" /\ ~IsTerminalState("None") /\ 0 \notin Id
      /\ \A i \in Id : ~(i < i)
  BY DEF NoReservation, IsTerminalState, Id
<1> HIDE DEF t, index, ins, u, back, after, gone
<1>10. \A i \in Id : t[i].state # "None" =>
         /\ t[i].request = reservations[i].request
         /\ reservations[i].state # "None"
  BY <1>3 DEF Descends, Follows
<1>11. \A i \in Id \ {n} : ins[i].state # "None" =>
         /\ t[i].state # "None" /\ ins[i].request = t[i].request
  BY <1>3 DEF Follows
<1>12. ASSUME NEW i \in gone
       PROVE  reservations[i].request = q.id /\ reservations[i].state # "None"
  <2>1. index[q.id] = i /\ reservations[i].state # "None" /\ i \in Id
    BY <1>6, <1>7, <1>10, NotLive DEF gone, Superseded
  <2>2. requestIndex[q.id] = i
    BY <1>1, <1>4, <1>9, <2>1
  <2> QED
    BY <1>1, <1>8, <1>9, <2>1, <2>2
<1>13. ASSUME NEW k \in RequestId, requestIndex'[k] # requestIndex[k]
       PROVE  EntryDropped(k)
  <2> DEFINE i == requestIndex[k]
  <2>1. requestIndex'[k] = IF k = q.id THEN index[q.id] ELSE after[k]
    BY <1>2, <1>4
  <2>2. CASE index[k] # i
    <3>1. /\ index[k] = 0 /\ i \in Id /\ reservations[i].request = k
          /\ IsTerminalState(reservations[i].state) /\ t[i] = NoReservation
      BY <1>4, <2>2
    <3>2. i < n /\ i \in Id \ {n}
      BY <1>1, <1>8, <1>9, <3>1
    <3>3. requestIndex'[k] = 0
      BY <1>4, <1>9, <2>1, <3>1
    <3>4. reservations'[i].state = "None"
      <4>1. ~IsLiveState(t[i].state) /\ ins[i].state = "None"
        BY <1>9, <1>11, <3>1, <3>2, NotLive
      <4>2. i \notin gone
        BY <1>6, <4>1
      <4>3. back[i] = u[i]
        BY <1>5, <3>2, <4>2
      <4>4. Follows(u[i], ins[i])
        BY <1>1, <3>2, CommitFollows DEF Descends, u, ins, t, index
      <4> QED
        BY <1>2, <4>1, <4>3, <4>4 DEF Follows
    <3>5. reservations[i].state # "None"
      BY <1>9, <3>1
    <3> QED
      BY <1>9, <3>1, <3>3, <3>4, <3>5 DEF EntryDropped
  <2>3. CASE index[k] = i
    <3>1. k # q.id /\ after[k] # index[k]
      BY <1>13, <2>1, <2>3
    <3>2. /\ after[k] = 0 /\ i \in Id /\ ins[i].request = k
          /\ IsTerminalState(ins[i].state) /\ u[i] = NoReservation
      BY <1>4, <2>3, <3>1
    <3>3. i \in Id \ {n}
      BY <1>1, <1>8, <1>9, <3>2
    <3>4. reservations[i].request = k /\ reservations[i].state # "None"
      BY <1>9, <1>10, <1>11, <3>2, <3>3
    <3>5. i \notin gone
      BY <1>12, <3>1, <3>4
    <3>6. reservations'[i].state = "None"
      BY <1>2, <1>5, <1>9, <3>2, <3>3, <3>5
    <3> QED
      BY <1>9, <2>1, <3>1, <3>2, <3>4, <3>6 DEF EntryDropped
  <2> QED
    BY <2>2, <2>3
<1> QED
  BY <1>1, <1>2, <1>3, <1>13 DEF Shrinks

\* A commit that stands keeps the invariant: the new record is the newest of
\* its request, takes the index entry over from the one it supersedes, and
\* bears an identity no grant has named.
LEMMA CommitIdentity ==
  ASSUME IdentityInv, IndexInv', NEW q \in Request, NEW now \in Instants,
         AllocateCommit(q, now, TRUE)
  PROVE  IdentityInv'
<1> DEFINE t     == AfterPrune(reservations)
           index == IndexAfterPrune(requestIndex, reservations)
           ins   == Inserted(q, now, t, index)
           u     == AfterPrune(ins)
           after == CommittedIndex(q, now, t, index)
           n     == nextReservationId
           gone  == Superseded(q, t, index)
           r     == NewReservation(q, now)
           g     == [request |-> q.id, generation |-> q.generation, id |-> n]
<1>1. /\ now \in Nat /\ n \in Id /\ n \in Nat /\ Placements(q, now) # {}
      /\ q.id \in RequestId /\ q.id # 0
  BY TypeFacts, RequestFacts, ConstantsAssumption
  DEF AllocateCommit, Eligible, IdentityInv, IndexInv, Id
<1>2. /\ reservations' = u /\ requestIndex' = after /\ nextReservationId' = n + 1
      /\ granted' = IF Durable THEN granted \cup {g} ELSE granted
      /\ disk' = IF Durable THEN ImageOf(u, n + 1, lastActivityAt') ELSE disk
  BY DEF AllocateCommit, Persist, Report
<1>3. /\ Labelled(u) /\ Labelled(ins) /\ Labelled(t)
      /\ Descends(t, reservations) /\ Descends(u, ins)
      /\ \A i \in Id \ {n} : Follows(ins[i], t[i]) /\ Follows(u[i], reservations[i])
  BY <1>1, CommitFollows
<1>4. /\ after \in [RequestId -> Id \cup {0}]
      /\ after[q.id] = n
      /\ \A k \in RequestId :
           \/ index[k] = requestIndex[k]
           \/ /\ index[k] = 0 /\ requestIndex[k] \in Id
              /\ t[requestIndex[k]] = NoReservation
      /\ \A k \in RequestId \ {q.id} :
           \/ after[k] = index[k]
           \/ /\ after[k] = 0 /\ index[k] \in Id
              /\ u[index[k]] = NoReservation
  BY <1>1, CommitEntries
<1>5. /\ u[n] = r /\ n \notin gone
      /\ \A i \in Id \ {n} :
           /\ IsLiveState(u[i].state) <=> IsLiveState(reservations[i].state) /\ i \notin gone
           /\ IsLiveState(u[i].state) => u[i] = reservations[i]
  BY <1>1, InsertedLive DEF IdentityInv, IndexInv, IdsFresh, Id
<1>6. r.request = q.id /\ r.requestGeneration = q.generation /\ r.state = "Reserved"
  BY DEF NewReservation
<1>7. \A i \in Id : index[q.id] = i /\ IsLiveState(t[i].state) => i \in gone
  BY DEF Superseded
<1>8. \A i \in Id : IsLiveState(reservations[i].state) => t[i] = reservations[i]
  BY PruneKeepsLive DEF IdentityInv, IndexInv, TypeOK
<1>9. \A i \in Id : reservations[i].request \in RequestId \cup {0}
  BY DEF IdentityInv, IndexInv, TypeOK, Table, Reservation
<1>10. /\ NoReservation.state = "None" /\ 0 \notin Id
       /\ \A i, j \in Id : (i < j => i # j /\ i <= j) /\ i <= i
       /\ Id \subseteq Nat
  BY DEF NoReservation, Id
<1>11. \A i \in Id : reservations[i].state # "None" => i < n
  <2> SUFFICES ASSUME NEW i \in Id, ~(i < n)
               PROVE  reservations[i].state = "None"
    OBVIOUS
  <2>1. i >= n
    BY <1>1, <1>10
  <2> QED
    BY <2>1 DEF IdentityInv, IndexInv, IdsFresh
<1>12. granted \in SUBSET Grant
  BY DEF IdentityInv, IndexInv, TypeOK
<1>13. \A i \in Id \ {n} : u[i].request # 0 =>
         /\ u[i].request = reservations[i].request /\ i < n
         /\ u[i].requestGeneration = reservations[i].requestGeneration
  BY <1>3, <1>11 DEF Follows
<1> HIDE DEF t, index, ins, u, after, gone, r, g, n
<1>0. \A i \in Id : i < n => i < n + 1 /\ i # n
  <2>1. \A i \in Nat, m \in Nat : i < m => i < m + 1 /\ i # m
    OBVIOUS
  <2>2. n \in Nat
    BY <1>1
  <2> QED
    BY <2>1, <2>2 DEF Id
<1>14. \* a live record of another request keeps its entry
       \A i \in Id \ {n} : IsLiveState(u[i].state) =>
         /\ u[i].request \in RequestId \ {q.id} /\ requestIndex[u[i].request] = i
  <2> TAKE i \in Id \ {n}
  <2> HAVE IsLiveState(u[i].state)
  <2>1. /\ u[i] = reservations[i] /\ IsLiveState(reservations[i].state) /\ i \notin gone
        /\ reservations[i].state # "None"
    BY <1>5, NotLive
  <2>2. reservations[i].request \in RequestId
    BY <1>9, <2>1 DEF IdentityInv, Labelled
  <2>3. requestIndex[reservations[i].request] = i
    BY <2>1 DEF IdentityInv, Tracks
  <2>4. t[i] = reservations[i]
    BY <1>8, <2>1
  <2>5. reservations[i].request # q.id
    BY <1>1, <1>4, <1>7, <1>10, <2>1, <2>3, <2>4
  <2> QED
    BY <2>1, <2>2, <2>3, <2>5
<1>15. Tracks(requestIndex', reservations')
  <2> SUFFICES ASSUME NEW i \in Id, IsLiveState(u[i].state)
               PROVE  after[u[i].request] = i
    BY <1>2 DEF Tracks
  <2>1. CASE i = n
    BY <1>4, <1>5, <1>6, <2>1
  <2>2. CASE i # n
    <3>1. u[i].request \in RequestId \ {q.id} /\ requestIndex[u[i].request] = i
      BY <1>14, <2>2
    <3>2. u[i] = reservations[i] /\ t[i] = reservations[i]
      BY <1>5, <1>8, <2>2
    <3>3. u[i].state # "None"
      BY NotLive
    <3> QED
      BY <1>4, <1>10, <3>1, <3>2, <3>3
  <2> QED
    BY <2>1, <2>2
<1>16. NewestLive(reservations')
  <2> SUFFICES ASSUME NEW i \in Id, NEW j \in Id, IsLiveState(u[i].state),
                      u[j].request = u[i].request
               PROVE  j <= i
    BY <1>2 DEF NewestLive
  <2>1. CASE i = n
    BY <1>1, <1>5, <1>6, <1>10, <1>13, <2>1
  <2>2. CASE i # n
    <3>1. u[i].request # q.id /\ u[i] = reservations[i] /\ u[i].request # 0
      BY <1>3, <1>5, <1>14, <2>2, NotLive DEF Labelled
    <3>2. j # n
      BY <1>5, <1>6, <3>1
    <3>3. reservations[j].request = reservations[i].request
      BY <1>13, <3>1, <3>2
    <3> QED
      BY <3>1, <3>3 DEF IdentityInv, NewestLive
  <2> QED
    BY <2>1, <2>2
<1>17. Points(requestIndex', reservations', nextReservationId')
  <2> SUFFICES ASSUME NEW k \in RequestId, after[k] # 0
               PROVE  /\ after[k] < n + 1
                      /\ u[after[k]].state = "None" \/ u[after[k]].request = k
    BY <1>2 DEF Points
  <2>1. CASE k = q.id
    BY <1>1, <1>4, <1>5, <1>6, <2>1
  <2>2. CASE k # q.id
    <3>1. after[k] = requestIndex[k] /\ after[k] \in Id
      BY <1>4, <2>2
    <3>2. /\ after[k] < n
          /\ reservations[after[k]].state = "None" \/ reservations[after[k]].request = k
      BY <3>1 DEF IdentityInv, Points, n
    <3>3. Follows(u[after[k]], reservations[after[k]])
      BY <1>1, <1>3, <1>10, <3>1, <3>2
    <3>4. after[k] < n + 1
      BY <1>0, <3>1, <3>2
    <3> QED
      BY <3>2, <3>3, <3>4 DEF Follows
  <2> QED
    BY <2>1, <2>2
<1>18. \A h \in granted : h.id < n /\ h.id # n /\ h.id \in Id
  BY <1>1, <1>10, <1>12 DEF IdentityInv, GrantsMatch, Grant, n
<1>19. GrantsMatch(granted', reservations', nextReservationId')
  <2> SUFFICES ASSUME NEW h \in granted'
               PROVE  /\ h.id < n + 1
                      /\ \/ u[h.id].state = "None"
                         \/ u[h.id].request = h.request
                            /\ u[h.id].requestGeneration = h.generation
    BY <1>2 DEF GrantsMatch
  <2>1. CASE h \in granted
    <3>1. Follows(u[h.id], reservations[h.id])
      BY <1>3, <1>18, <2>1
    <3>2. \/ reservations[h.id].state = "None"
          \/ reservations[h.id].request = h.request
             /\ reservations[h.id].requestGeneration = h.generation
      BY <2>1 DEF IdentityInv, GrantsMatch
    <3>3. h.id < n + 1
      BY <1>0, <1>18, <2>1
    <3> QED
      BY <3>1, <3>2, <3>3 DEF Follows
  <2>2. CASE h = g
    BY <1>1, <1>5, <1>6, <2>2 DEF g
  <2> QED
    BY <1>2, <2>1, <2>2
<1>20. IdNeverReused'
  <2> SUFFICES ASSUME NEW a \in granted', NEW b \in granted', a.id = b.id
               PROVE  a = b
    BY DEF IdNeverReused
  <2>1. g.id = n
    BY DEF g
  <2> QED
    BY <1>2, <1>18, <2>1 DEF IdentityInv, IdNeverReused
<1>21. Durable =>
         /\ disk'.reservations = reservations' /\ disk'.nextReservationId = nextReservationId'
  BY <1>2 DEF ImageOf
<1>22. Labelled(reservations')
  BY <1>2, <1>3
<1>23. CASE Durable
  <2>1. Descends(reservations', disk'.reservations)
    BY <1>21, <1>22, <1>23, DescendsReflexive
  <2> QED
    BY <1>15, <1>16, <1>17, <1>19, <1>20, <1>21, <1>22, <1>23, <2>1 DEF IdentityInv
<1>24. CASE ~Durable
  BY <1>2, <1>15, <1>16, <1>17, <1>19, <1>20, <1>22, <1>24 DEF IdentityInv
<1> QED
  BY <1>23, <1>24

-----------------------------------------------------------------------------
(* Recovery, and the two theorems                                          *)

\* A replay names the record the index names, and tells the client nothing
\* that contradicts what it was told before.
LEMMA ReplayIdentity ==
  ASSUME IdentityInv, IndexInv', NEW q \in Request, AllocateReplay(q)
  PROVE  IdentityInv'
<1> DEFINE i == requestIndex[q.id]
           g == [request |-> q.id, generation |-> q.generation, id |-> i]
<1>1. /\ UNCHANGED <<reservations, nextReservationId, requestIndex, disk>>
      /\ granted' = IF Durable THEN granted \cup {g} ELSE granted
  BY DEF AllocateReplay, Report, memory
<1>2. q.id \in RequestId /\ i \in Id /\ reservations[i].state # "None"
      /\ q.generation = reservations[i].requestGeneration
  BY RequestFacts DEF AllocateReplay, IsReplay, Known, Existing, IdentityInv, IndexInv, TypeOK
<1>3. i < nextReservationId /\ reservations[i].request = q.id
  <2>1. 0 \notin Id
    BY DEF Id
  <2> HIDE DEF i
  <2>2. i # 0
    BY <1>2, <2>1
  <2> QED
    BY <1>2, <2>2 DEF IdentityInv, Points, i
<1>4. g.request = q.id /\ g.generation = q.generation /\ g.id = i
  OBVIOUS
<1> HIDE DEF g, i
<1>5. CASE Durable
  <2>1. Follows(reservations[i], disk.reservations[i])
    BY <1>2, <1>5 DEF IdentityInv, Descends
  <2>2. /\ disk.reservations[i].state # "None"
        /\ disk.reservations[i].request = q.id
        /\ disk.reservations[i].requestGeneration = q.generation
    BY <1>2, <1>3, <2>1 DEF Follows
  <2>3. i < disk.nextReservationId
    <3>1. i \in Nat /\ disk.nextReservationId \in Nat
      BY <1>2 DEF Id, IdentityInv, IndexInv, TypeOK, Image
    <3>2. ~(i >= disk.nextReservationId)
      BY <1>2, <2>2 DEF IdentityInv, IndexInv, IdsFresh
    <3> QED
      BY <3>1, <3>2
  <2>4. GrantsMatch(granted', reservations, nextReservationId)
    BY <1>1, <1>2, <1>3, <1>4, <1>5 DEF IdentityInv, GrantsMatch
  <2>5. GrantsMatch(granted', disk.reservations, disk.nextReservationId)
    BY <1>1, <1>4, <1>5, <2>2, <2>3 DEF IdentityInv, GrantsMatch
  <2>6. ASSUME NEW a \in granted, a.id = i
        PROVE  a = g
    <3>1. a.request = q.id /\ a.generation = q.generation
      BY <1>2, <1>3, <2>6 DEF IdentityInv, GrantsMatch
    <3>2. a = [request |-> a.request, generation |-> a.generation, id |-> a.id]
      BY DEF IdentityInv, IndexInv, TypeOK, Grant
    <3> QED
      BY <2>6, <3>1, <3>2 DEF g
  <2>7. IdNeverReused'
    <3> SUFFICES ASSUME NEW a \in granted', NEW b \in granted', a.id = b.id
                 PROVE  a = b
      BY DEF IdNeverReused
    <3> QED
      BY <1>1, <1>4, <1>5, <2>6 DEF IdentityInv, IdNeverReused
  <2> QED
    BY <1>1, <1>5, <2>4, <2>5, <2>7 DEF IdentityInv
<1>6. CASE ~Durable
  BY <1>1, <1>6 DEF IdentityInv, IdNeverReused
<1> QED
  BY <1>5, <1>6

\* The index that recovery rebuilds names the newest record of every request,
\* which is the live one if any is.
LEMMA RebuiltIndex ==
  ASSUME NEW t \in Table, Labelled(t), NewestLive(t), NEW next \in Nat, IdsFresh(t, next)
  PROVE  /\ Tracks(RequestIndexOf(t), t)
         /\ Points(RequestIndexOf(t), t, next)
         /\ \A i \in Id : t[i].state # "None" =>
              /\ RequestIndexOf(t)[t[i].request] \in Id
              /\ t[RequestIndexOf(t)[t[i].request]].request = t[i].request
              /\ i <= RequestIndexOf(t)[t[i].request]
<1> DEFINE index == RequestIndexOf(t)
<1>1. ASSUME NEW k \in RequestId, NEW i \in Id, t[i].request = k
      PROVE  /\ index[k] \in Id /\ t[index[k]].request = k
             /\ \A j \in Id : t[j].request = k => j <= index[k]
  <2> DEFINE S == {j \in Id : t[j].request = k}
  <2>1. S \subseteq Nat /\ S # {} /\ MaxId \in Nat /\ \A j \in S : j <= MaxId
    BY <1>1, ConstantsAssumption DEF Id
  <2>2. \E m \in S : \A j \in S : j <= m
    BY <2>1, GreatestElement
  <2>3. \E m \in Id : t[m].request = k /\ \A j \in Id : t[j].request = k => j <= m
    BY <2>2
  <2>4. index[k] = CHOOSE m \in Id : t[m].request = k /\ \A j \in Id : t[j].request = k => j <= m
    BY <1>1 DEF RequestIndexOf
  <2> QED
    BY <2>3, <2>4
<1>2. ASSUME NEW k \in RequestId, ~ \E i \in Id : t[i].request = k
      PROVE  index[k] = 0
  BY <1>2 DEF RequestIndexOf
<1>3. \A i \in Id : t[i].state # "None" => t[i].request \in RequestId
  BY DEF Labelled, Table, Reservation
<1> HIDE DEF index
<1>4. \A i \in Id : t[i].state # "None" =>
        /\ index[t[i].request] \in Id
        /\ t[index[t[i].request]].request = t[i].request
        /\ i <= index[t[i].request]
  BY <1>1, <1>3
<1>5. Tracks(index, t)
  <2> SUFFICES ASSUME NEW i \in Id, IsLiveState(t[i].state)
               PROVE  index[t[i].request] = i
    BY DEF Tracks
  <2>1. t[i].state # "None"
    BY NotLive
  <2>2. /\ index[t[i].request] \in Id
        /\ t[index[t[i].request]].request = t[i].request
        /\ i <= index[t[i].request]
    BY <1>4, <2>1
  <2>3. index[t[i].request] <= i
    BY <2>2 DEF NewestLive
  <2>4. \A a \in Id, b \in Id : a <= b /\ b <= a => a = b
    BY DEF Id
  <2> QED
    BY <2>2, <2>3, <2>4
<1>6. Points(index, t, next)
  <2> SUFFICES ASSUME NEW k \in RequestId, index[k] # 0
               PROVE  index[k] < next /\ t[index[k]].request = k
    BY DEF Points
  <2>1. PICK i \in Id : t[i].request = k
    BY <1>2
  <2>2. index[k] \in Id /\ t[index[k]].request = k
    BY <1>1, <2>1
  <2>3. k # 0
    BY ConstantsAssumption
  <2>4. t[index[k]].state # "None"
    BY <2>2, <2>3 DEF Labelled
  <2>5. ~(index[k] >= next)
    BY <2>2, <2>4 DEF IdsFresh
  <2>6. index[k] \in Nat
    BY <2>2 DEF Id
  <2>7. index[k] < next
    BY <2>5, <2>6
  <2> QED
    BY <2>2, <2>7
<1> QED
  BY <1>4, <1>5, <1>6 DEF index

\* The identities of an image are as sound as those of the memory it was.
LEMMA RecoverIdentity ==
  ASSUME IdentityInv, IndexInv', Recover
  PROVE  IdentityInv'
<1>1. /\ reservations' = [i \in Id |-> Demoted(disk.reservations[i])]
      /\ nextReservationId' = disk.nextReservationId
      /\ requestIndex' = RequestIndexOf(reservations')
      /\ UNCHANGED <<disk, granted>>
  BY DEF Recover
<1>2. \A i \in Id : disk.reservations[i] \in Reservation
  BY DEF IdentityInv, IndexInv, TypeOK, Image, Table
<1>3. \A r \in Reservation :
        /\ Demoted(r).request = r.request /\ Demoted(r).requestGeneration = r.requestGeneration
        /\ Demoted(r).state = "None" <=> r.state = "None"
        /\ IsLiveState(Demoted(r).state) <=> IsLiveState(r.state)
  BY NotLive DEF Demoted, Reservation
<1>4. Descends(reservations', disk.reservations)
  <2> SUFFICES ASSUME NEW i \in Id
               PROVE  Follows(reservations'[i], disk.reservations[i])
    BY DEF Descends
  <2>1. disk.reservations[i].state = "None" <=> disk.reservations[i].request = 0
    BY DEF IdentityInv, Labelled
  <2>2. reservations'[i] = Demoted(disk.reservations[i])
    BY <1>1
  <2> QED
    BY <1>2, <1>3, <2>1, <2>2 DEF Follows
<1>5. Labelled(reservations') /\ NewestLive(reservations')
  BY <1>4, Descent DEF IdentityInv
<1>6. /\ reservations' \in Table /\ nextReservationId' \in Nat
      /\ IdsFresh(reservations', nextReservationId')
      /\ disk.nextReservationId \in Nat /\ granted \in SUBSET Grant
  BY DEF IdentityInv, IndexInv, TypeOK, Image
<1>7. /\ Tracks(requestIndex', reservations')
      /\ Points(requestIndex', reservations', nextReservationId')
  BY <1>1, <1>5, <1>6, RebuiltIndex
<1>8. disk.nextReservationId <= disk.nextReservationId
  BY <1>6
<1>9. GrantsMatch(granted', reservations', nextReservationId')
  <2>1. GrantsMatch(granted, reservations', disk.nextReservationId)
    BY <1>4, <1>6, <1>8, GrantsDescend DEF IdentityInv
  <2> QED
    BY <1>1, <2>1
<1> QED
  BY <1>1, <1>4, <1>5, <1>7, <1>9 DEF IdentityInv, IdNeverReused

\* An empty table carries no requests.
LEMMA EmptyCarriesNothing ==
  /\ \A i \in Id : EmptyTable[i].state = "None" /\ EmptyTable[i].request = 0
  /\ Labelled(EmptyTable) /\ NewestLive(EmptyTable)
  /\ \A t : Descends(EmptyTable, t)
<1>1. \A i \in Id : EmptyTable[i].state = "None" /\ EmptyTable[i].request = 0
  BY DEF EmptyTable, NoReservation
<1> QED
  BY <1>1, NotLive DEF Labelled, NewestLive, Descends, Follows

\* A runtime that starts from nothing has no records, no entries, no grants.
LEMMA InitIdentity == Init => IdentityInv
BY InitIndex, EmptyCarriesNothing, NotLive
DEF Init, NoImage, IdentityInv, Tracks, Points, GrantsMatch, IdNeverReused

\* An empty table has no identities to confuse.
LEMMA EmptiedIdentity ==
  ASSUME IdentityInv, IndexInv', Emptied
  PROVE  IdentityInv'
<1>1. /\ reservations' = EmptyTable /\ requestIndex' = [k \in RequestId |-> 0]
      /\ granted' = {} /\ disk' = disk
  BY DEF Emptied
<1>2. Tracks(requestIndex', reservations')
  BY <1>1, EmptyCarriesNothing, NotLive DEF Tracks
<1>3. Points(requestIndex', reservations', nextReservationId')
  BY <1>1 DEF Points
<1>4. /\ GrantsMatch(granted', reservations', nextReservationId')
      /\ GrantsMatch(granted', disk'.reservations, disk'.nextReservationId)
      /\ IdNeverReused'
  BY <1>1 DEF GrantsMatch, IdNeverReused
<1>5. /\ Labelled(reservations') /\ NewestLive(reservations')
      /\ Descends(reservations', disk'.reservations)
  BY <1>1, EmptyCarriesNothing
<1> QED
  BY <1>1, <1>2, <1>3, <1>4, <1>5 DEF IdentityInv

\* Every step keeps the identities and the request index sound.
LEMMA NextIdentity == IdentityInv /\ [Next]_vars => IdentityInv'
<1> SUFFICES ASSUME IdentityInv, [Next]_vars
             PROVE  IdentityInv'
  OBVIOUS
<1>0. IndexInv'
  BY NextIndex DEF IdentityInv
<1>1. ASSUME NEW q \in Request, AllocateReplay(q)
      PROVE  IdentityInv'
  BY <1>0, <1>1, ReplayIdentity
<1>2. ASSUME NEW q \in Request, NEW now \in Instants, NEW authorised \in BOOLEAN,
             AllocateRefused(q, now, authorised)
      PROVE  IdentityInv'
  BY <1>0, <1>2, QuietShrinks, ShrinksIdentity DEF AllocateRefused
<1>3. ASSUME NEW q \in Request, NEW now \in Instants, AllocateAbandoned(q, now)
      PROVE  IdentityInv'
  BY <1>0, <1>3, AbandonedShrinks, ShrinksIdentity
<1>4. ASSUME NEW q \in Request, NEW now \in Instants, NEW stands \in Outcome,
             AllocateCommit(q, now, stands)
      PROVE  IdentityInv'
  <2>1. CASE stands = TRUE
    BY <1>0, <1>4, <2>1, CommitIdentity
  <2>2. CASE stands = FALSE
    BY <1>0, <1>4, <2>2, TakenBackShrinks, ShrinksIdentity
  <2> QED
    BY <2>1, <2>2 DEF Outcome
<1>5. ASSUME NEW i \in Id, OneReservation(i)
      PROVE  IdentityInv'
  BY <1>0, <1>5, OneReservationShrinks, ShrinksIdentity
<1>6. CASE Sweeps
  BY <1>0, <1>6, SweepsShrink, ShrinksIdentity
<1>7. CASE Save
  <2>1. /\ UNCHANGED <<reservations, nextReservationId, requestIndex, granted>>
        /\ disk'.present /\ disk'.reservations = reservations'
        /\ disk'.nextReservationId = nextReservationId'
    BY <1>7 DEF Save, ImageOf, memory
  <2> QED
    BY <1>0, <2>1, QuietShrinks, ShrinksIdentity
<1>8. CASE Recover
  BY <1>0, <1>8, RecoverIdentity
<1>9. ASSUME Emptied
      PROVE  IdentityInv'
  BY <1>0, <1>9, EmptiedIdentity
<1>10. CASE Tick
  BY <1>0, <1>10, QuietShrinks, ShrinksIdentity DEF Tick, memory
<1>11. CASE UNCHANGED vars
  BY <1>0, <1>11, QuietShrinks, ShrinksIdentity DEF vars, memory
<1> QED
  BY <1>1, <1>2, <1>3, <1>4, <1>5, <1>6, <1>7, <1>8, <1>9, <1>10, <1>11
  DEF Next, Allocate, StartAfresh, Reset

\* requestIndex names the live reservation of every request identity that has
\* one, so supersede, which looks nowhere else, never leaves a second one
\* alive: through prunes, commits taken back, sweeps undone, and the rebuilding
\* of the index at recovery.
THEOREM RequestIndexCorrect == Spec => []RequestIndexTracksLive
<1>1. IdentityInv => RequestIndexTracksLive
  BY DEF IdentityInv, RequestIndexTracksLive, Tracks
<1> QED
  BY <1>1, InitIdentity, NextIdentity, PTL DEF Spec

\* No two requests are ever told the same reservation identity, although a
\* commit that could not be made durable uses one up in memory only and a
\* recovery takes the counter back to what the image says.
THEOREM IdNeverReusedCorrect == Spec => []IdNeverReused
<1>1. IdentityInv => IdNeverReused
  BY DEF IdentityInv
<1> QED
  BY <1>1, InitIdentity, NextIdentity, PTL DEF Spec

-----------------------------------------------------------------------------
(* A request is granted once                                               *)

\* A grant of the request k whose record is not there any more.
Forgotten(k, grants, t) == \E c \in grants : c.request = k /\ t[c.id].state = "None"

\* Newer records of k are of later generations.
Ascending(k, t) ==
  \A i, j \in Id : t[i].request = k /\ t[j].request = k /\ i < j =>
    t[i].requestGeneration < t[j].requestGeneration

\* The index entry of k names its newest record.
Covered(k, index, t) ==
  \A i \in Id : t[i].request = k =>
    index[k] \in Id /\ t[index[k]].request = k /\ i <= index[k]

\* Every record is one that a client was told of.
Recorded(grants, t) ==
  \A i \in Id : t[i].state # "None" =>
    \E c \in grants : c.id = i /\ c.request = t[i].request

\* The inductive invariant behind OneGrantPerRequest. As long as no record of k
\* is forgotten, the generation the index leads to is the latest one granted,
\* in memory and, by way of the index a recovery rebuilds, in the image.
OnceInv ==
  /\ IdentityInv
  /\ ~disk.present => disk.reservations = EmptyTable
  /\ Durable =>
       /\ Recorded(granted, disk.reservations)
       /\ \A k \in RequestId :
            /\ \/ Forgotten(k, granted, reservations)
               \/ Ascending(k, reservations) /\ Covered(k, requestIndex, reservations)
            /\ \/ Forgotten(k, granted, disk.reservations)
               \/ Ascending(k, disk.reservations)

\* Request identities are not zero.
LEMMA RequestIdNonZero == \A k \in RequestId : k # 0
BY ConstantsAssumption

\* Records that descend from recorded ones are recorded, and those of one
\* request stay in order.
LEMMA RecordedDescends ==
  ASSUME NEW grants, NEW t, NEW u, Recorded(grants, t), Descends(u, t)
  PROVE  Recorded(grants, u)
BY DEF Recorded, Descends, Follows

\* A table that descends from one in which the grants of a request ascend keeps
\* their order.
LEMMA AscendingDescends ==
  ASSUME NEW k, k # 0, NEW t, NEW u, Ascending(k, t), Descends(u, t)
  PROVE  Ascending(k, u)
BY DEF Ascending, Descends, Follows

\* What is in memory is recorded when what is in the image is.
LEMMA MemoryRecorded ==
  ASSUME OnceInv, Durable
  PROVE  Recorded(granted, reservations)
BY RecordedDescends DEF OnceInv, IdentityInv

\* Two grants of one generation of a request would be two of its records with
\* the same generation.
LEMMA OnceSuffices == OnceInv => OneGrantPerRequest
<1> SUFFICES ASSUME OnceInv, NEW a \in granted, NEW b \in granted,
                    a.request = b.request, a.generation = b.generation, a.id # b.id,
                    \A c \in granted : c.request = a.request => reservations[c.id].state # "None"
             PROVE  FALSE
  BY DEF OneGrantPerRequest
<1>1. Durable
  BY DEF OnceInv, IdentityInv
<1>2. a \in Grant /\ b \in Grant
  BY DEF OnceInv, IdentityInv, IndexInv, TypeOK
<1>3. Ascending(a.request, reservations)
  BY <1>1, <1>2 DEF OnceInv, Forgotten, Grant
<1>4. /\ reservations[a.id].request = a.request /\ reservations[b.id].request = a.request
      /\ reservations[a.id].requestGeneration = reservations[b.id].requestGeneration
  BY DEF OnceInv, IdentityInv, GrantsMatch
<1>5. a.id \in Id /\ b.id \in Id /\ (a.id < b.id \/ b.id < a.id)
  BY <1>2 DEF Grant, Id
<1>6. reservations[a.id].requestGeneration \in Nat
  BY <1>5 DEF OnceInv, IdentityInv, IndexInv, TypeOK, Table, Reservation
<1>7. /\ a.id < b.id => reservations[a.id].requestGeneration < reservations[b.id].requestGeneration
      /\ b.id < a.id => reservations[b.id].requestGeneration < reservations[a.id].requestGeneration
  BY <1>3, <1>4, <1>5 DEF Ascending
<1> QED
  BY <1>4, <1>5, <1>6, <1>7

\* A step that mints nothing forgets requests or leaves their records alone.
LEMMA ShrinksOnce ==
  ASSUME OnceInv, IndexInv', Shrinks
  PROVE  OnceInv'
<1>1. IdentityInv'
  BY ShrinksIdentity DEF OnceInv
<1>2. /\ Descends(reservations', reservations) /\ granted' = granted
      /\ \/ disk' = disk
         \/ disk'.present /\ disk'.reservations = reservations'
  BY DEF Shrinks
<1>3. Labelled(reservations) /\ granted \in SUBSET Grant
  BY DEF OnceInv, IdentityInv, IndexInv, TypeOK
<1>4. ASSUME Durable
      PROVE  Recorded(granted, disk'.reservations)
  BY <1>2, <1>4, MemoryRecorded, RecordedDescends DEF OnceInv
<1>5. ASSUME Durable, NEW k \in RequestId
      PROVE  \/ Forgotten(k, granted, reservations')
             \/ Ascending(k, reservations') /\ Covered(k, requestIndex', reservations')
  <2>1. SUFFICES ASSUME ~Forgotten(k, granted, reservations')
                 PROVE  Ascending(k, reservations') /\ Covered(k, requestIndex', reservations')
    OBVIOUS
  <2>2. k # 0
    BY RequestIdNonZero
  <2>3. ~Forgotten(k, granted, reservations)
    <3> SUFFICES ASSUME NEW c \in granted, c.request = k, reservations[c.id].state = "None"
                 PROVE  FALSE
      BY DEF Forgotten
    <3>1. Follows(reservations'[c.id], reservations[c.id])
      BY <1>2, <1>3 DEF Descends, Grant
    <3> QED
      BY <2>1, <3>1 DEF Forgotten, Follows
  <2>4. Ascending(k, reservations) /\ Covered(k, requestIndex, reservations)
    BY <1>5, <2>3 DEF OnceInv
  <2>5. ASSUME NEW i \in Id, reservations[i].request = k
        PROVE  reservations'[i].state # "None" /\ reservations'[i].request = k
    <3>1. reservations[i].state # "None"
      BY <1>3, <2>2, <2>5 DEF Labelled
    <3>2. PICK c \in granted : c.id = i /\ c.request = k
      BY <1>5, <2>5, <3>1, MemoryRecorded DEF Recorded
    <3>3. reservations'[i].state # "None"
      BY <2>1, <3>2 DEF Forgotten
    <3> QED
      BY <1>2, <2>5, <3>3 DEF Descends, Follows
  <2>6. Ascending(k, reservations')
    BY <1>2, <2>2, <2>4, AscendingDescends
  <2>7. Covered(k, requestIndex', reservations')
    <3> SUFFICES ASSUME NEW i \in Id, reservations'[i].request = k
                 PROVE  /\ requestIndex'[k] \in Id
                        /\ reservations'[requestIndex'[k]].request = k
                        /\ i <= requestIndex'[k]
      BY DEF Covered
    <3>1. reservations[i].request = k
      BY <1>2, <2>2 DEF Descends, Follows
    <3>2. /\ requestIndex[k] \in Id /\ reservations[requestIndex[k]].request = k
          /\ i <= requestIndex[k]
      BY <2>4, <3>1 DEF Covered
    <3>3. /\ reservations'[requestIndex[k]].state # "None"
          /\ reservations'[requestIndex[k]].request = k
      BY <2>5, <3>2
    <3>4. requestIndex'[k] = requestIndex[k]
      BY <3>3 DEF Shrinks, EntryDropped
    <3> QED
      BY <3>2, <3>3, <3>4
  <2> QED
    BY <2>6, <2>7
<1>6. CASE disk' = disk
  BY <1>1, <1>2, <1>4, <1>5, <1>6 DEF OnceInv
<1>7. CASE disk'.present /\ disk'.reservations = reservations'
  BY <1>1, <1>2, <1>4, <1>5, <1>7 DEF OnceInv
<1> QED
  BY <1>2, <1>6, <1>7

\* A replay only adds to what clients were told.
LEMMA ReplayOnce ==
  ASSUME OnceInv, IndexInv', NEW q \in Request, AllocateReplay(q)
  PROVE  OnceInv'
<1>1. IdentityInv'
  BY ReplayIdentity DEF OnceInv
<1>2. /\ UNCHANGED <<reservations, requestIndex, disk>> /\ granted \subseteq granted'
  BY DEF AllocateReplay, Report, memory
<1>3. \A k, t : Forgotten(k, granted, t) => Forgotten(k, granted', t)
  BY <1>2 DEF Forgotten
<1>4. Durable => Recorded(granted', disk.reservations)
  BY <1>2 DEF OnceInv, Recorded
<1> QED
  BY <1>1, <1>2, <1>3, <1>4 DEF OnceInv

\* A commit is of a later generation than every record of its request, unless
\* one of them was forgotten.
LEMMA CommitOnce ==
  ASSUME OnceInv, IndexInv', NEW q \in Request, NEW now \in Instants,
         AllocateCommit(q, now, TRUE)
  PROVE  OnceInv'
<1> DEFINE t     == AfterPrune(reservations)
           index == IndexAfterPrune(requestIndex, reservations)
           ins   == Inserted(q, now, t, index)
           u     == AfterPrune(ins)
           after == CommittedIndex(q, now, t, index)
           n     == nextReservationId
           r     == NewReservation(q, now)
           g     == [request |-> q.id, generation |-> q.generation, id |-> n]
<1>0. IdentityInv' /\ IdentityInv
  BY CommitIdentity DEF OnceInv
<1>1. /\ now \in Nat /\ n \in Id /\ n \in Nat /\ Placements(q, now) # {}
      /\ q.id \in RequestId
  BY <1>0, TypeFacts, RequestFacts DEF AllocateCommit, Eligible, IdentityInv, IndexInv, Id
<1>2. /\ reservations' = u /\ requestIndex' = after
      /\ granted' = IF Durable THEN granted \cup {g} ELSE granted
      /\ disk' = IF Durable THEN ImageOf(u, n + 1, lastActivityAt') ELSE disk
  BY DEF AllocateCommit, Persist, Report
<1>3. /\ Labelled(u) /\ Descends(u, ins)
      /\ \A i \in Id \ {n} : Follows(ins[i], t[i]) /\ Follows(u[i], reservations[i])
  BY <1>0, <1>1, CommitFollows
<1>4. /\ after[q.id] = n
      /\ \A k \in RequestId :
           \/ index[k] = requestIndex[k]
           \/ /\ index[k] = 0 /\ requestIndex[k] \in Id
              /\ t[requestIndex[k]] = NoReservation
      /\ \A k \in RequestId \ {q.id} :
           \/ after[k] = index[k]
           \/ /\ after[k] = 0 /\ index[k] \in Id
              /\ u[index[k]] = NoReservation
  BY <1>0, <1>1, CommitEntries
<1>5. u[n] = r
  BY <1>0, <1>1, InsertedLive DEF IdentityInv, IndexInv, IdsFresh, Id
<1>6. r.request = q.id /\ r.requestGeneration = q.generation
  BY DEF NewReservation
<1>7. Known(q) => q.generation > Existing(q).requestGeneration
  BY DEF AllocateCommit, Eligible
<1>8. \A i \in Id : reservations[i].state # "None" => i < n
  <2> SUFFICES ASSUME NEW i \in Id, ~(i < n)
               PROVE  reservations[i].state = "None"
    OBVIOUS
  <2>1. i >= n
    BY <1>1 DEF Id
  <2> QED
    BY <1>0, <2>1 DEF IdentityInv, IndexInv, IdsFresh
<1>9. /\ \A i \in Id : ~(i < i) /\ i <= i /\ i \in Nat
      /\ \A i, j \in Id : i < j => ~(j < i) /\ i # j /\ i <= j
      /\ \A i, j \in Id : i <= j => i < j \/ i = j
      /\ 0 \notin Id
  BY DEF Id
<1>10. \A i \in Id : /\ reservations[i].requestGeneration \in Nat
                     /\ reservations[i].state = "None" <=> reservations[i].request = 0
  BY <1>0 DEF IdentityInv, IndexInv, TypeOK, Table, Reservation, Labelled
<1>11. \A c \in granted : c.id \in Id \ {n}
  BY <1>0, <1>9 DEF IdentityInv, IndexInv, TypeOK, GrantsMatch, Grant
<1>12. q.generation \in Nat /\ NoReservation.state = "None"
  BY RequestFacts DEF NoReservation
<1>13. g.id = n /\ g.request = q.id
  OBVIOUS
<1> HIDE DEF t, index, ins, u, after, r, g, n
<1>14. CASE ~Durable
  BY <1>0, <1>2, <1>14 DEF OnceInv
<1>15. CASE Durable
  <2>1. disk'.present /\ disk'.reservations = u /\ granted' = granted \cup {g}
    BY <1>2, <1>15 DEF ImageOf
  <2>2. Recorded(granted, reservations)
    BY <1>15, MemoryRecorded
  <2>3. Recorded(granted', u)
    <3> SUFFICES ASSUME NEW i \in Id, u[i].state # "None"
                 PROVE  \E c \in granted' : c.id = i /\ c.request = u[i].request
      BY DEF Recorded
    <3>1. CASE i = n
      BY <1>5, <1>6, <1>13, <2>1, <3>1
    <3>2. CASE i # n
      BY <1>3, <2>1, <2>2, <3>2 DEF Recorded, Follows
    <3> QED
      BY <3>1, <3>2
  <2>4. ASSUME NEW k \in RequestId, ~Forgotten(k, granted', u)
        PROVE  Ascending(k, u) /\ Covered(k, after, u)
    <3>1. k # 0
      BY RequestIdNonZero
    <3>2. ~Forgotten(k, granted, reservations)
      <4> SUFFICES ASSUME NEW c \in granted, c.request = k, reservations[c.id].state = "None"
                   PROVE  FALSE
        BY DEF Forgotten
      <4>1. u[c.id].state = "None"
        BY <1>3, <1>11 DEF Follows
      <4> QED
        BY <2>1, <2>4, <4>1 DEF Forgotten
    <3>3. Ascending(k, reservations) /\ Covered(k, requestIndex, reservations)
      BY <1>15, <3>2 DEF OnceInv
    <3>4. ASSUME NEW i \in Id, reservations[i].request = k
          PROVE  /\ i # n /\ i < n /\ u[i].state # "None"
                 /\ u[i].request = k
                 /\ u[i].requestGeneration = reservations[i].requestGeneration
      <4>1. reservations[i].state # "None" /\ i < n /\ i # n
        BY <1>1, <1>8, <1>9, <1>10, <3>1, <3>4
      <4>2. PICK c \in granted : c.id = i /\ c.request = k
        BY <2>2, <3>4, <4>1 DEF Recorded
      <4>3. u[i].state # "None"
        BY <2>1, <2>4, <4>2 DEF Forgotten
      <4> QED
        BY <1>3, <3>4, <4>1, <4>3 DEF Follows
    <3>5. ASSUME NEW i \in Id, i # n, u[i].request = k
          PROVE  /\ reservations[i].request = k
                 /\ u[i].requestGeneration = reservations[i].requestGeneration
      BY <1>3, <3>1, <3>5 DEF Follows
    <3>6. \A i \in Id : reservations[i].request = k =>
            /\ requestIndex[k] \in Id /\ reservations[requestIndex[k]].request = k
            /\ i <= requestIndex[k]
      BY <3>3 DEF Covered
    <3>7. CASE k # q.id
      <4>1. u[n].request # k
        BY <1>5, <1>6, <3>7
      <4>2. Ascending(k, u)
        BY <3>3, <3>5, <4>1 DEF Ascending
      <4>3. Covered(k, after, u)
        <5> SUFFICES ASSUME NEW i \in Id, u[i].request = k
                     PROVE  after[k] \in Id /\ u[after[k]].request = k /\ i <= after[k]
          BY DEF Covered
        <5> DEFINE m == requestIndex[k]
        <5>1. m \in Id /\ reservations[m].request = k /\ i <= m
          BY <3>5, <3>6, <4>1
        <5>2. m # n /\ u[m].state # "None" /\ u[m].request = k
          BY <3>4, <5>1
        <5>3. index[k] = m
          <6>1. t[m] # NoReservation
            BY <1>3, <1>12, <5>1, <5>2 DEF Descends, Follows
          <6> QED
            BY <1>4, <6>1
        <5>4. after[k] = m
          BY <1>4, <1>12, <3>7, <5>2, <5>3
        <5> QED
          BY <5>1, <5>2, <5>4
      <4> QED
        BY <4>2, <4>3
    <3>8. CASE k = q.id
      <4>1. ASSUME NEW i \in Id, i # n, u[i].request = k
            PROVE  i < n /\ u[i].requestGeneration < q.generation
        <5> DEFINE m == requestIndex[k]
        <5>1. m \in Id /\ reservations[m].request = k /\ i <= m
          BY <3>5, <3>6, <4>1
        <5>2. q.generation > reservations[m].requestGeneration
          BY <1>7, <1>9, <1>10, <3>1, <3>8, <5>1 DEF Known, Existing
        <5>3. \/ i = m
              \/ reservations[i].requestGeneration < reservations[m].requestGeneration
          BY <1>9, <3>3, <3>5, <4>1, <5>1 DEF Ascending
        <5>4. reservations[i].requestGeneration < q.generation
          <6>1. /\ reservations[i].requestGeneration \in Nat
                /\ reservations[m].requestGeneration \in Nat
            BY <1>10, <5>1
          <6> HIDE DEF m
          <6> QED
            BY <1>12, <5>2, <5>3, <6>1
        <5> QED
          BY <3>4, <3>5, <4>1, <5>4
      <4>2. u[n].request = k /\ u[n].requestGeneration = q.generation
        BY <1>5, <1>6, <3>8
      <4>3. Ascending(k, u)
        <5> SUFFICES ASSUME NEW i \in Id, NEW j \in Id,
                            u[i].request = k, u[j].request = k, i < j
                     PROVE  u[i].requestGeneration < u[j].requestGeneration
          BY DEF Ascending
        <5>1. CASE j = n
          BY <1>9, <4>1, <4>2, <5>1
        <5>2. CASE i = n
          BY <1>1, <1>9, <4>1, <5>2
        <5>3. CASE i # n /\ j # n
          BY <3>3, <3>5, <5>3 DEF Ascending
        <5> QED
          BY <5>1, <5>2, <5>3
      <4>4. Covered(k, after, u)
        <5>1. after[k] = n
          BY <1>4, <3>8
        <5>2. \A i \in Id : u[i].request = k => i <= n
          BY <1>1, <1>9, <4>1
        <5> QED
          BY <1>1, <4>2, <5>1, <5>2 DEF Covered
      <4> QED
        BY <4>3, <4>4
    <3> QED
      BY <3>7, <3>8
  <2> QED
    BY <1>0, <1>2, <2>1, <2>3, <2>4 DEF OnceInv
<1> QED
  BY <1>14, <1>15

\* Recovery leads from the index it rebuilds to the newest record again.
LEMMA RecoverOnce ==
  ASSUME OnceInv, IndexInv', Recover
  PROVE  OnceInv'
<1>1. IdentityInv' /\ IdentityInv
  BY RecoverIdentity DEF OnceInv
<1>2. /\ reservations' = [i \in Id |-> Demoted(disk.reservations[i])]
      /\ requestIndex' = RequestIndexOf(reservations')
      /\ UNCHANGED <<disk, granted>>
  BY DEF Recover
<1>3. \A i \in Id : disk.reservations[i] \in Reservation
  BY <1>1 DEF IdentityInv, IndexInv, TypeOK, Image, Table
<1>4. \A r \in Reservation :
        /\ Demoted(r).request = r.request /\ Demoted(r).requestGeneration = r.requestGeneration
        /\ Demoted(r).state = "None" <=> r.state = "None"
  BY DEF Demoted, Reservation
<1>5. \A i \in Id :
        /\ reservations'[i].request = disk.reservations[i].request
        /\ reservations'[i].requestGeneration = disk.reservations[i].requestGeneration
        /\ reservations'[i].state = "None" <=> disk.reservations[i].state = "None"
  BY <1>2, <1>3, <1>4
<1>6. \A k : Forgotten(k, granted, disk.reservations) => Forgotten(k, granted, reservations')
  <2>1. \A c \in granted : c.id \in Id
    BY <1>1 DEF IdentityInv, IndexInv, TypeOK, Grant
  <2> QED
    BY <1>5, <2>1 DEF Forgotten
<1>7. \A k : Ascending(k, disk.reservations) => Ascending(k, reservations')
  BY <1>5 DEF Ascending
<1>8. \A k \in RequestId : Covered(k, requestIndex', reservations')
  <2>1. /\ reservations' \in Table /\ nextReservationId' \in Nat
        /\ IdsFresh(reservations', nextReservationId')
        /\ Labelled(reservations') /\ NewestLive(reservations')
    BY <1>1 DEF IdentityInv, IndexInv, TypeOK
  <2>2. \A i \in Id : reservations'[i].state # "None" =>
          /\ requestIndex'[reservations'[i].request] \in Id
          /\ reservations'[requestIndex'[reservations'[i].request]].request
               = reservations'[i].request
          /\ i <= requestIndex'[reservations'[i].request]
    BY <1>2, <2>1, RebuiltIndex
  <2> QED
    BY <2>1, <2>2, RequestIdNonZero DEF Covered, Labelled
<1> QED
  BY <1>1, <1>2, <1>6, <1>7, <1>8 DEF OnceInv

\* A process that finds no image starts with nothing granted.
LEMMA StartAfreshOnce ==
  ASSUME OnceInv, IndexInv', StartAfresh
  PROVE  OnceInv'
<1>1. /\ reservations' = EmptyTable /\ disk' = disk /\ disk.reservations = EmptyTable
  BY DEF StartAfresh, Emptied, OnceInv
<1>2. IdentityInv'
  BY EmptiedIdentity DEF StartAfresh, OnceInv
<1>3. Recorded(granted', EmptyTable)
  BY EmptyCarriesNothing DEF Recorded
<1>4. \A k \in RequestId : /\ Ascending(k, EmptyTable)
                           /\ Covered(k, requestIndex', EmptyTable)
  BY EmptyCarriesNothing, RequestIdNonZero DEF Ascending, Covered
<1> QED
  BY <1>1, <1>2, <1>3, <1>4 DEF OnceInv

\* A new runtime has granted nothing.
LEMMA InitOnce == Init => OnceInv
<1> SUFFICES ASSUME Init
             PROVE  OnceInv
  OBVIOUS
<1>1. reservations = EmptyTable /\ disk.reservations = EmptyTable /\ ~disk.present
  BY DEF Init, NoImage
<1>2. \A k \in RequestId : Ascending(k, EmptyTable) /\ Covered(k, requestIndex, EmptyTable)
  BY EmptyCarriesNothing, RequestIdNonZero DEF Ascending, Covered
<1>3. Recorded(granted, EmptyTable)
  BY EmptyCarriesNothing DEF Recorded
<1> QED
  BY <1>1, <1>2, <1>3, InitIdentity DEF OnceInv

\* Every step leaves a repeated request with one grant.
LEMMA NextOnce ==
  ASSUME ~AllowReset
  PROVE  OnceInv /\ [Next]_vars => OnceInv'
<1> SUFFICES ASSUME OnceInv, [Next]_vars
             PROVE  OnceInv'
  OBVIOUS
<1>0. IndexInv' /\ IdentityInv
  BY NextIndex DEF OnceInv, IdentityInv
<1>1. ASSUME NEW q \in Request, AllocateReplay(q)
      PROVE  OnceInv'
  BY <1>0, <1>1, ReplayOnce
<1>2. ASSUME NEW q \in Request, NEW now \in Instants, NEW authorised \in BOOLEAN,
             AllocateRefused(q, now, authorised)
      PROVE  OnceInv'
  BY <1>0, <1>2, QuietShrinks, ShrinksOnce DEF AllocateRefused
<1>3. ASSUME NEW q \in Request, NEW now \in Instants, AllocateAbandoned(q, now)
      PROVE  OnceInv'
  BY <1>0, <1>3, AbandonedShrinks, ShrinksOnce
<1>4. ASSUME NEW q \in Request, NEW now \in Instants, NEW stands \in Outcome,
             AllocateCommit(q, now, stands)
      PROVE  OnceInv'
  <2>1. CASE stands = TRUE
    BY <1>0, <1>4, <2>1, CommitOnce
  <2>2. CASE stands = FALSE
    BY <1>0, <1>4, <2>2, TakenBackShrinks, ShrinksOnce
  <2> QED
    BY <2>1, <2>2 DEF Outcome
<1>5. ASSUME NEW i \in Id, OneReservation(i)
      PROVE  OnceInv'
  BY <1>0, <1>5, OneReservationShrinks, ShrinksOnce
<1>6. CASE Sweeps
  BY <1>0, <1>6, SweepsShrink, ShrinksOnce
<1>7. CASE Save
  <2>1. /\ UNCHANGED <<reservations, nextReservationId, requestIndex, granted>>
        /\ disk'.present /\ disk'.reservations = reservations'
        /\ disk'.nextReservationId = nextReservationId'
    BY <1>7 DEF Save, ImageOf, memory
  <2> QED
    BY <1>0, <2>1, QuietShrinks, ShrinksOnce
<1>8. CASE Recover
  BY <1>0, <1>8, RecoverOnce
<1>9. CASE StartAfresh
  BY <1>0, <1>9, StartAfreshOnce
<1>10. CASE Reset
  BY <1>10 DEF Reset
<1>11. CASE Tick
  BY <1>0, <1>11, QuietShrinks, ShrinksOnce DEF Tick, memory
<1>12. CASE UNCHANGED vars
  BY <1>0, <1>12, QuietShrinks, ShrinksOnce DEF vars, memory
<1> QED
  BY <1>1, <1>2, <1>3, <1>4, <1>5, <1>6, <1>7, <1>8, <1>9, <1>10, <1>11, <1>12
  DEF Next, Allocate

\* Every answer to one generation of a request names the same reservation,
\* through replays, failed writes, sweeps, crashes and recoveries, until a
\* record of that request has been pruned; a reset, which starts the identities
\* over under a state file that still has them, is left out.
THEOREM OneGrantCorrect ==
  ASSUME ~AllowReset
  PROVE  Spec => []OneGrantPerRequest
<1> QED
  BY OnceSuffices, InitOnce, NextOnce, PTL DEF Spec
=============================================================================
