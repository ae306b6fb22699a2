----------------------------- MODULE Candidates -----------------------------
(***************************************************************************)
(* Candidate enumeration: how a request is turned into an ordered, bounded *)
(* list of placements, which of them is selected, and with which outcome a *)
(* request without one is refused.                                         *)
(*                                                                         *)
(* The code works on lists of slot ranges that it sorts, merges, cuts and  *)
(* merges again. A merged list of ranges is determined by the set of slots *)
(* it covers, so a list is that set here, and a run of a list is a maximal *)
(* interval of the set. Frequencies are integers, grids have an anchor and *)
(* a slot width, and one grid need not be aligned with another.            *)
(*                                                                         *)
(* Around the evaluation there is just enough of the runtime to give it    *)
(* states to work on: capabilities are published, domains are registered   *)
(* again, reservations are committed and end. Leases, identities of        *)
(* requests and restarts belong to Fabric, which uses of this module only  *)
(* that the lowest free placement is selected.                             *)
(***************************************************************************)
EXTENDS Integers, FiniteSets, FiniteSetsExt, Spectrum

CONSTANTS
  Domain,          \* spectrum domains, naturals: requests list them ascending
  Grid,            \* channel grids
  GridOf,          \* the grid each domain is registered on
  Fragmented,      \* domains registered with requiresContiguity = false
  Exclusion,       \* registered exclusion domains: [members, guard]
  Publication,     \* what a controller may publish about a domain
  Request,         \* requests a client may send
  MaxCandidates,   \* RuntimeConfig::maxCandidatesPerRequest
  MaxDiagnostics,  \* kMaxDiagnosticCandidates
  SlotWord,        \* slot indices are unsigned words: 2^32 in the code
  MaxId,           \* bound: reservations the model commits
  MaxGeneration    \* bound: generations of a domain

GridType ==
  [anchor : Nat \ {0}, width : Nat \ {0}, count : Nat \ {0},
   minSlots : Nat \ {0}, maxSlots : Nat \ {0}]

\* validateGrid: a fixed grid has one slot per channel, a flex grid a range of
\* widths; how many slots the grid itself has does not bound them.
ValidGrid(g) == g \in GridType /\ g.minSlots <= g.maxSlots

FrequencyRange == [low : Int, high : Int]
SlotRange == [first : Nat, count : Nat]

PublicationType ==
  [support : {"Supported", "Unsupported", "Unknown"}, window : SlotRange,
   tunable : FrequencyRange, contiguityEnforced : BOOLEAN, conversion : BOOLEAN]

Id == 1..MaxId

RequestType ==
  [domains : SUBSET Domain, grid : Grid, slots : Nat, guard : Nat,
   fragments : BOOLEAN, windows : SUBSET FrequencyRange,
   excludedSlots : SUBSET SlotRange, excludedFrequencies : SUBSET FrequencyRange,
   apart : SUBSET Id]

\* validateCapabilityShape: what a domain that is not SUPPORTED may not have.
WellShaped(p) ==
  IF p.support = "Supported"
    THEN p.window.count > 0 /\ p.tunable.low < p.tunable.high
    ELSE p.window = [first |-> 0, count |-> 0]

\* What publishCapability accepts of a publication about a domain of grid g.
Publishable(p, g) ==
  /\ WellShaped(p)
  /\ p.support = "Supported" =>
       /\ p.window.first + p.window.count <= g.count
       /\ p.tunable.low >= g.anchor
       /\ p.tunable.high <= g.anchor + g.width * g.count

ASSUME CandidatesAssumption ==
  /\ Domain \subseteq Nat /\ IsFiniteSet(Domain)
  /\ \A g \in Grid : ValidGrid(g)
  /\ GridOf \in [Domain -> Grid]
  /\ Fragmented \subseteq Domain
  /\ Exclusion \subseteq [members : SUBSET Domain, guard : Nat]
  /\ Publication \subseteq PublicationType
  /\ Request \subseteq RequestType
  /\ MaxCandidates \in Nat \ {0} /\ MaxDiagnostics \in Nat \ {0}
  /\ SlotWord \in Nat \ {0}
  /\ MaxId \in Nat \ {0} /\ MaxGeneration \in Nat \ {0}

VARIABLES
  generation,   \* the generation each domain is registered at
  capability,   \* the published capability of each domain
  reservations  \* the reservation table, as far as it matters to placement

vars == <<generation, capability, reservations>>

Reservation ==
  [state : {"None", "Live", "Ended"}, domains : SUBSET Domain, low : Nat \ {0},
   high : Nat \ {0}, guard : Nat]

NoReservation ==
  [state |-> "None", domains |-> {}, low |-> 1, high |-> 1, guard |-> 0]

\* describes is the domain generation a capability was published for; 0 is
\* no capability.
Capability ==
  [describes : Nat, support : {"Supported", "Unsupported", "Unknown"},
   window : SlotRange, tunable : FrequencyRange, contiguityEnforced : BOOLEAN,
   conversion : BOOLEAN]

NoCapability ==
  [describes |-> 0, support |-> "Unknown", window |-> [first |-> 0, count |-> 0],
   tunable |-> [low |-> 0, high |-> 0], contiguityEnforced |-> TRUE,
   conversion |-> FALSE]

LiveIds == {i \in Id : reservations[i].state = "Live"}

-----------------------------------------------------------------------------
(* Slots and frequencies                                                   *)

FloorDiv(a, b) == a \div b
CeilDiv(a, b) == -((-a) \div b)

SlotsOf(g) == 0..(g.count - 1)

\* The slots of a range [first, first + count).
Slots(first, count) == first..(first + count - 1)

\* Mutant: the range ends where its last slot begins.
FrequencyToLastSlot(g, first, count) ==
  [low |-> g.anchor + first * g.width, high |-> g.anchor + (first + count - 1) * g.width]

FrequencyOf(g, first, count) ==
  [low |-> g.anchor + first * g.width, high |-> g.anchor + (first + count) * g.width]

\* innerSlotRange: the slots that lie inside a frequency range.
Inner(g, f) ==
  {k \in SlotsOf(g) : /\ CeilDiv(f.low - g.anchor, g.width) <= k
                      /\ k < FloorDiv(f.high - g.anchor, g.width)}

\* outerSlotRange: the slots that touch a frequency range.
Outer(g, f) ==
  {k \in SlotsOf(g) : /\ FloorDiv(f.low - g.anchor, g.width) <= k
                      /\ k < CeilDiv(f.high - g.anchor, g.width)}

Contains(f, inner) == f.low <= inner.low /\ inner.high <= f.high
OverlapsFrequency(a, b) == a.low < b.high /\ b.low < a.high

\* SlotRange::end and SlotRange::overlaps, in unsigned words.
SlotEnd(r) == (r.first + r.count) % SlotWord
OverlapsSlots(a, b) == a.first < SlotEnd(b) /\ b.first < SlotEnd(a)

ChannelWidthSupported(g, n) == g.minSlots <= n /\ n <= g.maxSlots

\* Mutant: the guard is kept twice over.
ExpandedTwice(r, guard) ==
  [low |-> IF r.low < 2 * guard THEN 0 ELSE r.low - 2 * guard,
   high |-> r.high + 2 * guard]

\* expandByGuard: clamped at zero below.
Expanded(r, guard) ==
  [low |-> IF r.low < guard THEN 0 ELSE r.low - guard, high |-> r.high + guard]

Larger(a, b) == IF a > b THEN a ELSE b

-----------------------------------------------------------------------------
(* prepare                                                                 *)

\* validateRequestShape: there is something to allocate, and no range that a
\* request lists is empty.
WellFormed(q) ==
  /\ q.domains # {} /\ q.slots > 0
  /\ \A f \in q.windows \cup q.excludedFrequencies : f.low < f.high
  /\ \A r \in q.excludedSlots : r.count > 0

ConversionRequired(q, d) == GridOf[d] # q.grid

\* Mutant: what a capability was published for is not compared.
TroubleOfAnyGeneration(stale, d) ==
  IF d \in stale THEN "RefusedStaleGeneration"
  ELSE IF capability[d].describes = 0 THEN "RefusedUnknownCapability"
  ELSE IF capability[d].support = "Unsupported" THEN "RefusedUnsupported"
  ELSE IF capability[d].support = "Unknown" THEN "RefusedUnknownCapability"
  ELSE "None"

\* What stands against one domain of a request that names older generations
\* of the domains in stale.
Trouble(stale, d) ==
  IF d \in stale THEN "RefusedStaleGeneration"
  ELSE IF capability[d].describes = 0 THEN "RefusedUnknownCapability"
  ELSE IF capability[d].describes # generation[d] THEN "RefusedStaleCapability"
  ELSE IF capability[d].support = "Unsupported" THEN "RefusedUnsupported"
  ELSE IF capability[d].support = "Unknown" THEN "RefusedUnknownCapability"
  ELSE "None"

Troubled(q, stale) == {d \in q.domains : Trouble(stale, d) # "None"}

\* The first obstacle in the order of the code; "None" when the candidates
\* can be enumerated.
Preparation(q, stale) ==
  IF ~ChannelWidthSupported(q.grid, q.slots) THEN "RefusedChannelWidth"
  ELSE IF Troubled(q, stale) # {} THEN Trouble(stale, Min(Troubled(q, stale)))
  ELSE IF /\ \E d \in q.domains : ConversionRequired(q, d)
          /\ \E d \in q.domains : ~capability[d].conversion
         THEN "RefusedConversion"
  ELSE IF \E i \in q.apart : reservations[i].state = "None" THEN "RefusedConstraint"
  ELSE "None"

-----------------------------------------------------------------------------
(* The search space                                                        *)

Anchored(q) == {d \in q.domains : ~ConversionRequired(q, d)}

\* The slots of one domain on the request's grid that are allocatable and
\* tunable.
WindowOf(q, d) ==
  Slots(capability[d].window.first, capability[d].window.count)
    \cap Inner(q.grid, capability[d].tunable)

\* The windows of the domains are put side by side and merged; the permitted
\* frequency windows, if any, are then cut out of them.
SearchWindow(q) ==
  LET open == UNION {WindowOf(q, d) : d \in Anchored(q)}
  IN  IF q.windows = {} THEN open
      ELSE open \cap UNION {Inner(q.grid, w) : w \in q.windows}

\* The reservations that stand in the way of a request, each with the guard
\* that is to be kept from it.
Blocks(q) ==
  {<<i, 0>> : i \in {j \in LiveIds : \/ reservations[j].domains \cap q.domains # {}
                                      \/ j \in q.apart}}
  \cup UNION {{<<i, e.guard>> :
                 i \in {j \in LiveIds :
                          \E d \in q.domains \cap e.members :
                            reservations[j].domains \cap (e.members \ {d}) # {}}} :
               e \in Exclusion}

BlockedSlots(q) ==
  UNION {Outer(q.grid,
               Expanded(reservations[b[1]],
                        Larger(reservations[b[1]].guard, q.guard) + b[2])) :
          b \in Blocks(q)}

Lowest(n, S) == {s \in S : Cardinality({t \in S : t < s}) < n}

\* Every start of every free run that is long enough, and the retained ones.
Starts(q) ==
  LET free == SearchWindow(q) \ BlockedSlots(q)
  IN  {s \in free : Slots(s, q.slots) \subseteq free}

\* Mutant: the list is filled from above.
RetainedFromAbove(q) ==
  {s \in Starts(q) : Cardinality({t \in Starts(q) : t > s}) < MaxCandidates}

\* Mutant: the list ends one candidate early.
RetainedOneShort(q) == Lowest(MaxCandidates - 1, Starts(q))

Retained(q) == Lowest(MaxCandidates, Starts(q))

\* The first start of every blocked run that is long enough, for diagnosis.
Diagnosed(q) ==
  LET blocked == SearchWindow(q) \cap BlockedSlots(q)
  IN  Lowest(MaxDiagnostics,
             {s \in blocked : s - 1 \notin blocked /\ Slots(s, q.slots) \subseteq blocked})

-----------------------------------------------------------------------------
(* evaluateCandidate                                                       *)

\* The domain and its capability both insist on contiguous spectrum.
Contiguous(d) == d \notin Fragmented /\ capability[d].contiguityEnforced

\* Mutant: a converted candidate need only fit inside the grid.
UnfitWithGap(q, d, f) ==
  IF ~Contains(capability[d].tunable, f) THEN "RefusedConstraint"
  ELSE IF q.slots > 1 /\ q.fragments /\ ~Contiguous(d) THEN "RefusedContiguity"
  ELSE IF /\ ConversionRequired(q, d)
          /\ ~ChannelWidthSupported(GridOf[d], Cardinality(Inner(GridOf[d], f)))
         THEN "RefusedConversion"
  ELSE "None"

\* What a domain that does not own anything in the way says of a candidate.
Unfit(q, d, f) ==
  IF ~Contains(capability[d].tunable, f) THEN "RefusedConstraint"
  ELSE IF q.slots > 1 /\ q.fragments /\ ~Contiguous(d) THEN "RefusedContiguity"
  ELSE IF /\ ConversionRequired(q, d)
          /\ \/ ~ChannelWidthSupported(GridOf[d], Cardinality(Inner(GridOf[d], f)))
             \/ f # FrequencyOf(GridOf[d], Min(Inner(GridOf[d], f)),
                                Cardinality(Inner(GridOf[d], f)))
         THEN "RefusedConversion"
  ELSE "None"

Claim(q, f) == [domains |-> q.domains, low |-> f.low, high |-> f.high, guard |-> q.guard]

\* crossDomainFree for one domain: who is in the way there, and who only
\* because of an exclusion domain.
OwnersHere(q, d, f) ==
  {i \in LiveIds : d \in reservations[i].domains /\ Clash(Claim(q, f), reservations[i], 0)}

\* Mutant: exclusion domains are not looked at.
NoOwnersAcross(q, d, f) == {}

OwnersAcross(q, d, f) ==
  {i \in LiveIds : \E e \in Exclusion :
     /\ d \in e.members
     /\ reservations[i].domains \cap (e.members \ {d}) # {}
     /\ Clash(Claim(q, f), reservations[i], e.guard)}

Owners(q, d, f) == OwnersHere(q, d, f) \cup OwnersAcross(q, d, f)

\* The candidate that begins at s keeps to the permitted windows, and off the
\* excluded slots and frequencies.
Unconstrained(q, s) ==
  LET f == FrequencyOf(q.grid, s, q.slots) IN
  /\ q.windows # {} => \E w \in q.windows : Contains(w, f)
  /\ \A r \in q.excludedSlots : ~OverlapsSlots(r, [first |-> s, count |-> q.slots])
  /\ \A r \in q.excludedFrequencies : ~OverlapsFrequency(r, f)

\* The outcome of one candidate: constraints first, then every domain's
\* fitness in order, then every domain's owners in order.
Verdict(q, s) ==
  LET f == FrequencyOf(q.grid, s, q.slots)
      unfit == {d \in q.domains : Unfit(q, d, f) # "None"}
      owned == {d \in q.domains : Owners(q, d, f) # {}}
  IN  IF ~Unconstrained(q, s) THEN "RefusedConstraint"
      ELSE IF unfit # {} THEN Unfit(q, Min(unfit), f)
      ELSE IF owned = {} THEN "Allocated"
      ELSE IF OwnersAcross(q, Min(owned), f) # {} THEN "RefusedExclusion"
      ELSE "RefusedConflict"

-----------------------------------------------------------------------------
(* evaluate                                                                *)

Rank(outcome) ==
  CASE outcome = "RefusedConversion" -> 80
    [] outcome = "RefusedExclusion"  -> 70
    [] outcome = "RefusedConstraint" -> 65
    [] outcome = "RefusedContiguity" -> 60
    [] outcome = "RefusedConflict"   -> 55
    [] OTHER                         -> 0

\* The list of candidates: the retained ones, and the diagnosed ones when none
\* of the retained ones will do. A diagnosed one that will do is selected.
Listed(q) ==
  LET retained == Retained(q)
  IN  IF \E s \in retained : Verdict(q, s) = "Allocated"
        THEN retained ELSE retained \cup Diagnosed(q)

Eligible(q) == {s \in Listed(q) : Verdict(q, s) = "Allocated"}

\* Mutant: the last eligible candidate is selected.
SelectedLast(q) == Max(Eligible(q))

Selected(q) == Min(Eligible(q))

\* What stops a request before any candidate is looked at.
Obstacle(q, stale) ==
  LET preparation == Preparation(q, stale) IN
  IF ~WellFormed(q) THEN "RefusedInvalidRequest"
  ELSE IF preparation # "None" THEN preparation
  ELSE IF \E d \in Anchored(q) : WindowOf(q, d) = {} THEN "RefusedUnsupported"
  ELSE "None"

Conclusion(q, stale) ==
  LET obstacle == Obstacle(q, stale)
      verdicts == {Verdict(q, s) : s \in Listed(q)}
  IN  IF obstacle # "None" THEN obstacle
      ELSE IF verdicts = {} THEN "RefusedNoCapacity"
      ELSE IF "Allocated" \in verdicts THEN "Allocated"
      ELSE CHOOSE v \in verdicts : \A w \in verdicts : Rank(w) <= Rank(v)

-----------------------------------------------------------------------------
(* usage: the occupancy of one domain                                      *)

\* Mutant: usage goes by any capability the domain ever had.
WindowOfAnyGeneration(d) ==
  IF capability[d].support = "Supported"
    THEN Slots(capability[d].window.first, capability[d].window.count) ELSE {}

\* The window counts when the capability speaks of the domain as it is
\* registered now, and says SUPPORTED.
AllocatableWindow(d) ==
  IF capability[d].describes = generation[d] /\ capability[d].support = "Supported"
    THEN Slots(capability[d].window.first, capability[d].window.count) ELSE {}

\* perDomainSlots of every live reservation, on the domain's own grid.
LiveSlots(d) ==
  UNION {Inner(GridOf[d], reservations[i]) :
           i \in {j \in LiveIds : d \in reservations[j].domains}}

\* freeSlots is a difference of two counts, freeRuns what is left of the window.
Usage(d) ==
  LET window == Cardinality(AllocatableWindow(d))
      live   == Cardinality(LiveSlots(d))
  IN  [allocatable |-> window, live |-> live,
       free |-> IF window > live THEN window - live ELSE 0,
       runs |-> AllocatableWindow(d) \ LiveSlots(d)]

-----------------------------------------------------------------------------
(* Actions                                                                 *)

Init ==
  /\ generation = [d \in Domain |-> 1]
  /\ capability = [d \in Domain |-> NoCapability]
  /\ reservations = [i \in Id |-> NoReservation]

\* publishCapability names the registered generation of the domain.
Publish(d, p) ==
  /\ Publishable(p, GridOf[d])
  /\ capability' = [capability EXCEPT ![d] =
       [describes |-> generation[d], support |-> p.support, window |-> p.window,
        tunable |-> p.tunable, contiguityEnforced |-> p.contiguityEnforced,
        conversion |-> p.conversion]]
  /\ UNCHANGED <<generation, reservations>>

\* registerDomain at a newer generation; the capability stays what it was.
Redefine(d) ==
  /\ generation[d] < MaxGeneration
  /\ generation' = [generation EXCEPT ![d] = @ + 1]
  /\ UNCHANGED <<capability, reservations>>

\* A refused request leaves this state as it is.
Allocate(q, stale) ==
  /\ Conclusion(q, stale) = "Allocated"
  /\ \E i \in Id : reservations[i].state = "None"
  /\ LET i == Min({j \in Id : reservations[j].state = "None"})
         f == FrequencyOf(q.grid, Selected(q), q.slots)
     IN  reservations' = [reservations EXCEPT ![i] =
           [state |-> "Live", domains |-> q.domains, low |-> f.low, high |-> f.high,
            guard |-> q.guard]]
  /\ UNCHANGED <<generation, capability>>

\* Release, supersession or expiry.
End(i) ==
  /\ reservations[i].state = "Live"
  /\ reservations' = [reservations EXCEPT ![i].state = "Ended"]
  /\ UNCHANGED <<generation, capability>>

\* Domains whose older generation a client may still name.
Outdated == {d \in Domain : generation[d] > 1}

Next ==
  \/ \E d \in Domain, p \in Publication : Publish(d, p)
  \/ \E d \in Domain : Redefine(d)
  \/ \E q \in Request, stale \in SUBSET Outdated : Allocate(q, stale)
  \/ \E i \in Id : End(i)

Spec == Init /\ [][Next]_vars

-----------------------------------------------------------------------------
(* The reference: which placements a request may have, said without lists, *)
(* runs, rounding or an order of checks.                                   *)

AllocatableRange(d) ==
  FrequencyOf(GridOf[d], capability[d].window.first, capability[d].window.count)

\* The frequencies f are a channel of grid g.
IsChannelOf(g, f) ==
  \E first \in SlotsOf(g), n \in g.minSlots..g.maxSlots :
    first + n <= g.count /\ f = FrequencyOf(g, first, n)

\* Nobody who owns spectrum is in the way of f.
Unowned(q, f) ==
  \A i \in LiveIds :
    /\ ShareDomain(q, reservations[i]) => ~Clash(Claim(q, f), reservations[i], 0)
    /\ \A e \in Exclusion : \A d \in q.domains \cap e.members,
         m \in reservations[i].domains \cap e.members :
           d # m => ~Clash(Claim(q, f), reservations[i], e.guard)

\* The reservations a request is to be kept apart from are out of its way.
KeptApart(q, f) ==
  \A i \in q.apart \cap LiveIds : ~Clash(Claim(q, f), reservations[i], 0)

\* What the client asked for and every domain can carry.
Admissible(q, f) ==
  /\ \A d \in q.domains :
       /\ Contains(capability[d].tunable, f)
       /\ IsChannelOf(GridOf[d], f)
       /\ q.slots > 1 /\ q.fragments => Contiguous(d)
  /\ q.windows # {} => \E w \in q.windows : Contains(w, f)
  /\ \A r \in q.excludedSlots :
       ~OverlapsFrequency(f, FrequencyOf(q.grid, r.first, r.count))
  /\ \A r \in q.excludedFrequencies : ~OverlapsFrequency(f, r)

InEveryWindow(q, f) == \A d \in q.domains : Contains(AllocatableRange(d), f)

Possible(q) ==
  {s \in SlotsOf(q.grid) :
     LET f == FrequencyOf(q.grid, s, q.slots)
     IN  Admissible(q, f) /\ InEveryWindow(q, f) /\ Unowned(q, f) /\ KeptApart(q, f)}

Choice(q) == FrequencyOf(q.grid, Selected(q), q.slots)

-----------------------------------------------------------------------------
(* Properties, each of every request that could be sent in a state         *)

\* Shape of the state; a reservation owns a frequency range that is not empty.
TypeOK ==
  /\ generation \in [Domain -> 1..MaxGeneration]
  /\ capability \in [Domain -> Capability]
  /\ reservations \in [Id -> Reservation]
  /\ \A i \in LiveIds : reservations[i].low < reservations[i].high

\* What is selected is in nobody's way, whichever domain or exclusion domain
\* the two meet in: the retained candidates come from free runs, the diagnosed
\* ones from blocked runs, and neither may slip through (evaluateCandidate).
NobodyDisplaced ==
  \A q \in Request : Conclusion(q, {}) = "Allocated" => Unowned(q, Choice(q))

\* What is selected is what the client asked for on every domain, after
\* conversion between grids that are not aligned, and is granted only on the
\* word of a capability published for the domain as it is registered now, and
\* that says SUPPORTED (evaluateCandidate, prepare).
AsRequested ==
  \A q \in Request : Conclusion(q, {}) = "Allocated" =>
    /\ Admissible(q, Choice(q))
    /\ \A d \in q.domains :
         capability[d].describes = generation[d] /\ capability[d].support = "Supported"

\* The start s is beyond the end of a list that lower starts fill.
CutOff(q, s) == Cardinality({t \in Starts(q) : t < s}) >= MaxCandidates

\* A request is refused only when there is no placement for it, or when lower
\* ones that all had to be looked at first filled the list: rounding to slots,
\* merging and cutting of runs, the widening by guard bands and the bound on
\* the list lose no other (enumerateWithOutcome).
NothingOverlooked ==
  \A q \in Request :
    Obstacle(q, {}) = "None" /\ Anchored(q) # {} /\ Conclusion(q, {}) # "Allocated"
    => \A s \in Possible(q) : CutOff(q, s)

\* The choice is the lowest placement, so that equal states decide equally and
\* spectrum is filled from below, and does not depend on what the list was cut
\* to: only a placement that was cut off can be lower (evaluate).
LowestFirst ==
  \A q \in Request :
    Conclusion(q, {}) = "Allocated" =>
      \A s \in Possible(q) : Selected(q) <= s \/ CutOff(q, s)

\* usage and allocate agree about a domain: it reports no free slot where a
\* request would be refused for the capability alone, never more of them than
\* its runs hold, and what a request of this domain is granted was free in it
\* (computeUsage goes over capabilities and owners by itself).
UsageAgrees ==
  /\ \A d \in Domain :
       /\ Usage(d).runs # {} => Trouble({}, d) = "None"
       /\ Usage(d).free <= Cardinality(Usage(d).runs)
  /\ \A q \in Request : \A d \in Anchored(q) :
       Conclusion(q, {}) = "Allocated" /\ q.domains = {d} =>
         Slots(Selected(q), q.slots) \subseteq Usage(d).runs

\* A candidate is inside the allocatable window of every spanned domain (the
\* claim of the documentation; the windows are united, not intersected).
InsideEveryWindow ==
  \A q \in Request : Conclusion(q, {}) = "Allocated" => InEveryWindow(q, Choice(q))
=============================================================================
