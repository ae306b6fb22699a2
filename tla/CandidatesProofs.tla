--------------------------- MODULE CandidatesProofs ---------------------------
(***************************************************************************)
(* Proofs about the enumeration of candidates: rounding between slots and  *)
(* frequencies loses nothing and covers everything, and with that what is  *)
(* selected is in nobody's way, is what was asked for, and is the lowest   *)
(* of all placements a request may have.                                   *)
(***************************************************************************)
EXTENDS Candidates, FiniteSetTheorems, TLAPS

-----------------------------------------------------------------------------
(* Least elements and products                                             *)

\* Min of a set of naturals is what its name says.
LEMMA MinOfNaturals ==
  ASSUME NEW S \in SUBSET Nat, S # {}
  PROVE  Min(S) \in S /\ \A x \in S : Min(S) <= x
<1> DEFINE Below == {p \in Nat \X Nat : p[1] < p[2]}
<1>1. IsWellFoundedOn(Below, Nat)
  BY NatLessThanWellFounded DEF Below, OpToRel
<1>2. PICK x \in S : \A y \in S : <<y, x>> \notin Below
  BY <1>1, WFMin
<1>3. ASSUME NEW y \in S, ~(x <= y)
      PROVE  <<y, x>> \in Below
  <2>1. x \in Nat /\ y \in Nat /\ y < x
    BY <1>3
  <2>2. <<y, x>> \in Nat \X Nat /\ <<y, x>>[1] < <<y, x>>[2]
    BY <2>1
  <2> QED
    BY <2>2
<1>4. \A y \in S : x <= y
  BY <1>2, <1>3
<1> QED
  BY <1>4 DEF Min

\* The order of factors is the order of products.
LEMMA Products ==
  ASSUME NEW w \in Nat \ {0}, NEW a \in Int, NEW b \in Int
  PROVE  /\ a * w \in Int
         /\ (a + b) * w = a * w + b * w
         /\ a <= b <=> a * w <= b * w
         /\ a < b <=> a * w < b * w
<1>1. a * w \in Int /\ b * w \in Int /\ (a + b) * w = a * w + b * w
  OBVIOUS
<1>2. a < b => a * w < b * w
  <2> SUFFICES ASSUME a < b PROVE a * w < b * w
    OBVIOUS
  <2> DEFINE e == b - a
  <2>1. e \in Int /\ e >= 1 /\ b = a + e
    OBVIOUS
  <2>2. e * w >= 1
    BY <2>1
  <2>3. b * w = a * w + e * w
    BY <2>1
  <2> QED
    BY <1>1, <2>2, <2>3
<1>3. b < a => b * w < a * w
  <2> SUFFICES ASSUME b < a PROVE b * w < a * w
    OBVIOUS
  <2> DEFINE e == a - b
  <2>1. e \in Int /\ e >= 1 /\ a = b + e
    OBVIOUS
  <2>2. e * w >= 1
    BY <2>1
  <2>3. a * w = b * w + e * w
    BY <2>1
  <2> QED
    BY <1>1, <2>2, <2>3
<1> QED
  BY <1>1, <1>2, <1>3

\* On one grid, slot edges of one frequency are one edge.
LEMMA SameProduct ==
  ASSUME NEW w \in Nat \ {0}, NEW c \in Int, NEW a \in Int, NEW b \in Int,
         c + a * w = c + b * w
  PROVE  a = b
<1> DEFINE x == a * w
           y == b * w
<1>1. x \in Int /\ y \in Int
  OBVIOUS
<1>2. (a < b <=> x < y) /\ (b < a <=> y < x)
  BY Products
<1>3. c + x = c + y
  OBVIOUS
<1> HIDE DEF x, y
<1>4. x = y
  BY <1>1, <1>3
<1> QED
  BY <1>1, <1>2, <1>4

\* Division rounds down: the quotient is the greatest number of whole slots.
LEMMA Floors ==
  ASSUME NEW w \in Nat \ {0}, NEW x \in Int, NEW k \in Int
  PROVE  /\ FloorDiv(x, w) \in Int
         /\ k <= FloorDiv(x, w) <=> k * w <= x
<1> DEFINE q == x \div w
<1>1. q \in Int /\ q * w <= x /\ x < (q + 1) * w
  OBVIOUS
<1>2. k <= q <=> k * w <= q * w
  BY <1>1, Products
<1>3. q + 1 <= k <=> (q + 1) * w <= k * w
  BY <1>1, Products, q + 1 \in Int
<1>4. k * w \in Int /\ q * w \in Int /\ (q + 1) * w \in Int
  BY <1>1
<1> HIDE DEF q
<1>5. k <= q <=> k * w <= x
  BY <1>1, <1>2, <1>3, <1>4
<1> QED
  BY <1>1, <1>5 DEF FloorDiv, q

\* Its mirror image rounds up.
LEMMA Ceilings ==
  ASSUME NEW w \in Nat \ {0}, NEW x \in Int, NEW k \in Int
  PROVE  /\ CeilDiv(x, w) \in Int
         /\ CeilDiv(x, w) <= k <=> x <= k * w
<1>1. FloorDiv(-x, w) \in Int /\ (-k <= FloorDiv(-x, w) <=> (-k) * w <= -x)
  BY Floors, -x \in Int, -k \in Int
<1>2. (-k) * w = -(k * w) /\ k * w \in Int
  OBVIOUS
<1>3. CeilDiv(x, w) = -FloorDiv(-x, w)
  BY DEF CeilDiv, FloorDiv
<1> QED
  BY <1>1, <1>2, <1>3

-----------------------------------------------------------------------------
(* Slots and frequencies                                                   *)

\* What the constants' assumption says of a grid.
LEMMA GridFacts ==
  ASSUME NEW g, ValidGrid(g)
  PROVE  /\ g.width \in Nat \ {0} /\ g.anchor \in Nat \ {0} /\ g.count \in Nat \ {0}
         /\ g.minSlots \in Nat \ {0} /\ g.maxSlots \in Nat \ {0}
         /\ SlotsOf(g) \subseteq Nat /\ 0 \in SlotsOf(g)
BY DEF ValidGrid, GridType, SlotsOf

\* A slot is an inner one when it begins and ends in the range: rounding takes
\* no slot in and leaves none out (innerSlotRange).
LEMMA InnerSlots ==
  ASSUME NEW g, ValidGrid(g), NEW f, f.low \in Int, f.high \in Int, NEW k \in Int
  PROVE  k \in Inner(g, f) <=>
           /\ k \in SlotsOf(g)
           /\ f.low <= g.anchor + k * g.width
           /\ g.anchor + (k + 1) * g.width <= f.high
<1> DEFINE w == g.width
           x == f.low - g.anchor
           y == f.high - g.anchor
<1>1. w \in Nat \ {0} /\ g.anchor \in Int /\ x \in Int /\ y \in Int
  BY GridFacts
<1>2. k * w \in Int /\ (k + 1) * w \in Int
  BY <1>1
<1>3. CeilDiv(x, w) <= k <=> x <= k * w
  BY <1>1, Ceilings
<1>4. FloorDiv(y, w) \in Int /\ (k + 1 <= FloorDiv(y, w) <=> (k + 1) * w <= y)
  BY <1>1, Floors, k + 1 \in Int
<1>5. k < FloorDiv(y, w) <=> k + 1 <= FloorDiv(y, w)
  BY <1>4
<1>6. x <= k * w <=> f.low <= g.anchor + k * w
  BY <1>1, <1>2
<1>7. (k + 1) * w <= y <=> g.anchor + (k + 1) * w <= f.high
  BY <1>1, <1>2
<1>8. k \in Inner(g, f) <=> k \in SlotsOf(g) /\ CeilDiv(x, w) <= k /\ k < FloorDiv(y, w)
  BY DEF Inner
<1> QED
  BY <1>3, <1>4, <1>5, <1>6, <1>7, <1>8

\* A slot is an outer one when it shares a frequency with the range
\* (outerSlotRange).
LEMMA OuterSlots ==
  ASSUME NEW g, ValidGrid(g), NEW f, f.low \in Int, f.high \in Int, NEW k \in Int
  PROVE  k \in Outer(g, f) <=>
           /\ k \in SlotsOf(g)
           /\ f.low < g.anchor + (k + 1) * g.width
           /\ g.anchor + k * g.width < f.high
<1> DEFINE w == g.width
           x == f.low - g.anchor
           y == f.high - g.anchor
<1>1. w \in Nat \ {0} /\ g.anchor \in Int /\ x \in Int /\ y \in Int
  BY GridFacts
<1>2. k * w \in Int /\ (k + 1) * w \in Int
  BY <1>1
<1>3. CeilDiv(y, w) \in Int /\ (CeilDiv(y, w) <= k <=> y <= k * w)
  BY <1>1, Ceilings
<1>4. FloorDiv(x, w) \in Int /\ (k + 1 <= FloorDiv(x, w) <=> (k + 1) * w <= x)
  BY <1>1, Floors, k + 1 \in Int
<1>5. FloorDiv(x, w) <= k <=> ~(k + 1 <= FloorDiv(x, w))
  BY <1>4
<1>6. k < CeilDiv(y, w) <=> ~(CeilDiv(y, w) <= k)
  BY <1>3
<1>7. ~(y <= k * w) <=> g.anchor + k * w < f.high
  BY <1>1, <1>2
<1>8. ~((k + 1) * w <= x) <=> f.low < g.anchor + (k + 1) * w
  BY <1>1, <1>2
<1>9. k \in Outer(g, f) <=> k \in SlotsOf(g) /\ FloorDiv(x, w) <= k /\ k < CeilDiv(y, w)
  BY DEF Outer
<1> QED
  BY <1>3, <1>4, <1>5, <1>6, <1>7, <1>8, <1>9

\* Where a slot of a placement begins and ends.
LEMMA SlotWithin ==
  ASSUME NEW g, ValidGrid(g), NEW s \in Int, NEW n \in Int, NEW k \in Slots(s, n)
  PROVE  /\ k \in Int /\ k * g.width \in Int /\ (k + 1) * g.width \in Int
         /\ FrequencyOf(g, s, n).low \in Int /\ FrequencyOf(g, s, n).high \in Int
         /\ FrequencyOf(g, s, n).low <= g.anchor + k * g.width
         /\ g.anchor + k * g.width < g.anchor + (k + 1) * g.width
         /\ g.anchor + (k + 1) * g.width <= FrequencyOf(g, s, n).high
<1> DEFINE w == g.width
<1>1. w \in Nat \ {0} /\ g.anchor \in Int
  BY GridFacts
<1>2. k \in Int /\ s <= k /\ k + 1 <= s + n
  BY DEF Slots
<1>3. s * w <= k * w /\ k * w < (k + 1) * w /\ (k + 1) * w <= (s + n) * w
  BY <1>1, <1>2, Products, k + 1 \in Int, s + n \in Int
<1>4. s * w \in Int /\ k * w \in Int /\ (k + 1) * w \in Int /\ (s + n) * w \in Int
  BY <1>1, <1>2
<1> HIDE DEF w
<1>5. /\ FrequencyOf(g, s, n).low = g.anchor + s * w
      /\ FrequencyOf(g, s, n).high = g.anchor + (s + n) * w
  BY DEF FrequencyOf, w
<1>6. /\ g.anchor + s * w <= g.anchor + k * w
      /\ g.anchor + k * w < g.anchor + (k + 1) * w
      /\ g.anchor + (k + 1) * w <= g.anchor + (s + n) * w
  BY <1>1, <1>3, <1>4
<1>7. g.anchor + s * w \in Int /\ g.anchor + (s + n) * w \in Int
  BY <1>1, <1>4
<1> QED
  BY <1>2, <1>4, <1>5, <1>6, <1>7 DEF w

\* A range that contains a placement has all of its slots inside.
LEMMA InnerCovers ==
  ASSUME NEW g, ValidGrid(g), NEW f, f.low \in Int, f.high \in Int,
         NEW s \in Nat, NEW n \in Nat, s + n <= g.count,
         Contains(f, FrequencyOf(g, s, n))
  PROVE  Slots(s, n) \subseteq Inner(g, f)
<1> SUFFICES ASSUME NEW k \in Slots(s, n) PROVE k \in Inner(g, f)
  OBVIOUS
<1>1. k \in Int /\ k \in SlotsOf(g)
  BY GridFacts DEF Slots, SlotsOf
<1>2. /\ f.low <= FrequencyOf(g, s, n).low
      /\ FrequencyOf(g, s, n).high <= f.high
  BY DEF Contains
<1>3. g.anchor + k * g.width \in Int /\ g.anchor + (k + 1) * g.width \in Int
  BY SlotWithin, GridFacts
<1>4. f.low <= g.anchor + k * g.width /\ g.anchor + (k + 1) * g.width <= f.high
  BY <1>2, <1>3, SlotWithin
<1> QED
  BY <1>1, <1>4, InnerSlots

\* A placement on a grid is so many slots from its first one on, and no others.
LEMMA ChannelSlots ==
  ASSUME NEW g, ValidGrid(g), NEW s \in Nat, NEW n \in Nat, s + n <= g.count
  PROVE  Inner(g, FrequencyOf(g, s, n)) = Slots(s, n)
<1> DEFINE w == g.width
           f == FrequencyOf(g, s, n)
<1>1. w \in Nat \ {0} /\ g.anchor \in Int
  BY GridFacts
<1>2. s * w \in Int /\ (s + n) * w \in Int
  BY <1>1
<1>3. f.low = g.anchor + s * w /\ f.high = g.anchor + (s + n) * w
  BY DEF FrequencyOf
<1>4. f.low \in Int /\ f.high \in Int
  BY <1>1, <1>2, <1>3
<1>5. Slots(s, n) \subseteq Inner(g, f)
  BY <1>4, InnerCovers DEF Contains
<1>6. ASSUME NEW k \in Inner(g, f)
      PROVE  k \in Slots(s, n)
  <2>1. k \in Int
    BY GridFacts DEF Inner
  <2>2. k * w \in Int /\ (k + 1) * w \in Int
    BY <1>1, <2>1
  <2>3. g.anchor + s * w <= g.anchor + k * w
    BY <1>3, <1>4, <2>1, InnerSlots
  <2>4. g.anchor + (k + 1) * w <= g.anchor + (s + n) * w
    BY <1>3, <1>4, <2>1, InnerSlots
  <2>5. s * w <= k * w /\ (k + 1) * w <= (s + n) * w
    BY <1>1, <1>2, <2>2, <2>3, <2>4
  <2>6. s <= k
    BY <1>1, <2>1, <2>5, Products
  <2>7. k + 1 <= s + n
    BY <1>1, <2>1, <2>5, Products, k + 1 \in Int, s + n \in Int
  <2> QED
    BY <2>1, <2>6, <2>7 DEF Slots
<1> QED
  BY <1>5, <1>6

-----------------------------------------------------------------------------
(* Outcomes                                                                *)

\* What a domain may say of a candidate.
LEMMA UnfitOutcomes ==
  ASSUME NEW q, NEW d, NEW f
  PROVE  Unfit(q, d, f) \in
           {"None", "RefusedConstraint", "RefusedContiguity", "RefusedConversion"}
BY DEF Unfit

\* Whom an outcome of a candidate may name as the reason.
Verdicts ==
  {"None", "RefusedConstraint", "RefusedContiguity", "RefusedConversion",
   "RefusedExclusion", "RefusedConflict", "Allocated"}

\* The verdict is the first of the reasons there are, and to allocate when
\* there is none (evaluateCandidate).
LEMMA VerdictOutcomes ==
  ASSUME NEW q, NEW s
  PROVE  /\ Verdict(q, s) \in Verdicts
         /\ Verdict(q, s) = "Allocated" <=>
              /\ Unconstrained(q, s)
              /\ \A d \in q.domains :
                   LET f == FrequencyOf(q.grid, s, q.slots)
                   IN  Unfit(q, d, f) = "None" /\ Owners(q, d, f) = {}
<1> DEFINE f == FrequencyOf(q.grid, s, q.slots)
           unfit == {d \in q.domains : Unfit(q, d, f) # "None"}
           owned == {d \in q.domains : Owners(q, d, f) # {}}
           u == Unfit(q, Min(unfit), f)
           across == OwnersAcross(q, Min(owned), f) # {}
           free == Unconstrained(q, s)
<1>1. Verdict(q, s) =
        IF ~free THEN "RefusedConstraint"
        ELSE IF unfit # {} THEN u
        ELSE IF owned = {} THEN "Allocated"
        ELSE IF across THEN "RefusedExclusion"
        ELSE "RefusedConflict"
  BY DEF Verdict
<1>2. u \in {"None", "RefusedConstraint", "RefusedContiguity", "RefusedConversion"}
  BY UnfitOutcomes
<1>3. /\ unfit = {} <=> \A d \in q.domains : Unfit(q, d, f) = "None"
      /\ owned = {} <=> \A d \in q.domains : Owners(q, d, f) = {}
  OBVIOUS
<1> HIDE DEF u, across, unfit, owned, free
<1>4. Verdict(q, s) \in Verdicts
  BY <1>1, <1>2 DEF Verdicts
<1>5. Verdict(q, s) = "Allocated" <=> free /\ unfit = {} /\ owned = {}
  BY <1>1, <1>2
<1> QED
  BY <1>3, <1>4, <1>5 DEF free

\* What stands against a domain, or against a request, is never that it was
\* granted.
LEMMA Refusals ==
  ASSUME NEW q, NEW stale, NEW d
  PROVE  /\ Trouble(stale, d) # "Allocated"
         /\ Preparation(q, stale) # "Allocated"
         /\ Obstacle(q, stale) # "Allocated"
<1>1. \A x : Trouble(stale, x) # "Allocated"
  BY DEF Trouble
<1>2. Preparation(q, stale) # "Allocated"
  BY <1>1 DEF Preparation
<1>3. Obstacle(q, stale) # "Allocated"
  BY <1>2 DEF Obstacle
<1> QED
  BY <1>1, <1>2, <1>3

\* A request is granted exactly when nothing stands in its way and one of the
\* candidates will do (evaluate).
LEMMA Granted ==
  ASSUME NEW q, NEW stale
  PROVE  Conclusion(q, stale) = "Allocated" <=>
           Obstacle(q, stale) = "None" /\ Eligible(q) # {}
<1> DEFINE obstacle == Obstacle(q, stale)
           verdicts == {Verdict(q, s) : s \in Listed(q)}
           best == CHOOSE v \in verdicts : \A w \in verdicts : Rank(w) <= Rank(v)
<1>1. Conclusion(q, stale) =
        IF obstacle # "None" THEN obstacle
        ELSE IF verdicts = {} THEN "RefusedNoCapacity"
        ELSE IF "Allocated" \in verdicts THEN "Allocated"
        ELSE best
  BY DEF Conclusion
<1>2. obstacle # "Allocated"
  BY Refusals
<1>3. "Allocated" \in verdicts <=> Eligible(q) # {}
  BY DEF Eligible
<1>4. ASSUME verdicts # {}
      PROVE  best \in verdicts
  <2>1. verdicts \subseteq Verdicts
    BY VerdictOutcomes
  <2>2. \A v \in Verdicts : Rank(v) \in {0, 55, 60, 65, 70, 80}
    BY DEF Verdicts, Rank
  <2>3. \E v \in verdicts : \A w \in verdicts : Rank(w) <= Rank(v)
    <3> HIDE DEF verdicts
    <3>1. CASE \E v \in verdicts : Rank(v) = 80
      BY <2>1, <2>2, <3>1
    <3>2. CASE /\ \A v \in verdicts : Rank(v) # 80
               /\ \E v \in verdicts : Rank(v) = 70
      BY <2>1, <2>2, <3>2
    <3>3. CASE /\ \A v \in verdicts : Rank(v) \notin {80, 70}
               /\ \E v \in verdicts : Rank(v) = 65
      BY <2>1, <2>2, <3>3
    <3>4. CASE /\ \A v \in verdicts : Rank(v) \notin {80, 70, 65}
               /\ \E v \in verdicts : Rank(v) = 60
      BY <2>1, <2>2, <3>4
    <3>5. CASE /\ \A v \in verdicts : Rank(v) \notin {80, 70, 65, 60}
               /\ \E v \in verdicts : Rank(v) = 55
      BY <2>1, <2>2, <3>5
    <3>6. CASE \A v \in verdicts : Rank(v) \notin {80, 70, 65, 60, 55}
      BY <1>4, <2>1, <2>2, <3>6
    <3> QED
      BY <3>1, <3>2, <3>3, <3>4, <3>5, <3>6
  <2> QED
    BY <2>3
<1> HIDE DEF obstacle, verdicts, best
<1>5. Conclusion(q, stale) = "Allocated" <=> obstacle = "None" /\ "Allocated" \in verdicts
  BY <1>1, <1>2, <1>4
<1> QED
  BY <1>3, <1>5 DEF obstacle

-----------------------------------------------------------------------------
(* Candidates                                                              *)

\* A request of the constants, with what their assumption says of it.
LEMMA RequestFacts ==
  ASSUME NEW q \in Request
  PROVE  /\ q \in RequestType /\ ValidGrid(q.grid)
         /\ q.domains \subseteq Domain /\ q.slots \in Nat /\ q.guard \in Nat
BY CandidatesAssumption DEF RequestType

\* Candidates lie in the search window with all of their slots, on the grid of
\* the request (enumerateWithOutcome).
LEMMA ListedInWindow ==
  ASSUME NEW q \in Request, NEW s \in Listed(q)
  PROVE  /\ s \in SearchWindow(q) /\ Slots(s, q.slots) \subseteq SearchWindow(q)
         /\ SearchWindow(q) \subseteq UNION {WindowOf(q, d) : d \in Anchored(q)}
         /\ SearchWindow(q) \subseteq SlotsOf(q.grid)
         /\ s \in Nat
<1>1. s \in Starts(q) \/ s \in Diagnosed(q)
  BY DEF Listed, Retained, Lowest
<1>2. s \in Starts(q) => s \in SearchWindow(q) /\ Slots(s, q.slots) \subseteq SearchWindow(q)
  BY DEF Starts
<1>3. s \in Diagnosed(q) =>
        s \in SearchWindow(q) /\ Slots(s, q.slots) \subseteq SearchWindow(q)
  BY DEF Diagnosed, Lowest
<1>4. SearchWindow(q) \subseteq UNION {WindowOf(q, d) : d \in Anchored(q)}
  BY DEF SearchWindow
<1>5. \A d : WindowOf(q, d) \subseteq SlotsOf(q.grid)
  BY DEF WindowOf, Inner
<1> QED
  BY <1>1, <1>2, <1>3, <1>4, <1>5, RequestFacts, GridFacts

\* The candidate selected is the lowest of those that will do (evaluate).
LEMMA SelectedIsEligible ==
  ASSUME NEW q \in Request, Eligible(q) # {}
  PROVE  /\ Selected(q) \in Listed(q) /\ Selected(q) \in Nat
         /\ Verdict(q, Selected(q)) = "Allocated"
         /\ \A s \in Eligible(q) : Selected(q) <= s
<1>1. Eligible(q) \in SUBSET Nat
  BY ListedInWindow DEF Eligible
<1>2. Selected(q) \in Eligible(q) /\ \A s \in Eligible(q) : Selected(q) <= s
  BY <1>1, MinOfNaturals DEF Selected
<1> QED
  BY <1>1, <1>2 DEF Eligible

-----------------------------------------------------------------------------
(* Nobody is displaced                                                     *)

\* A candidate without an owner in any domain is in nobody's way
\* (crossDomainFree).
LEMMA NoOwnerNoClash ==
  ASSUME NEW q, NEW f
  PROVE  Unowned(q, f) <=> \A d \in q.domains : Owners(q, d, f) = {}
BY DEF Unowned, Owners, OwnersHere, OwnersAcross, ShareDomain, Claim

\* Whatever the registry, the capabilities and the table are: what is selected
\* for a request is in nobody's way.
THEOREM PlacementsClear == Spec => []NobodyDisplaced
<1>1. NobodyDisplaced
  <2> SUFFICES ASSUME NEW q \in Request, Conclusion(q, {}) = "Allocated"
               PROVE  Unowned(q, Choice(q))
    BY DEF NobodyDisplaced
  <2>1. Eligible(q) # {}
    BY Granted
  <2>2. Verdict(q, Selected(q)) = "Allocated"
    BY <2>1, SelectedIsEligible
  <2>3. \A d \in q.domains : Owners(q, d, Choice(q)) = {}
    BY <2>2, VerdictOutcomes DEF Choice
  <2> QED
    BY <2>3, NoOwnerNoClash
<1> QED
  BY <1>1, PTL

-----------------------------------------------------------------------------
(* Types                                                                   *)

\* A selected placement is a range of frequencies above zero.
LEMMA ChoiceFacts ==
  ASSUME NEW q \in Request, NEW s \in Nat, q.slots > 0
  PROVE  LET f == FrequencyOf(q.grid, s, q.slots)
         IN  f.low \in Nat \ {0} /\ f.high \in Nat \ {0} /\ f.low < f.high
<1> DEFINE w == q.grid.width
           f == FrequencyOf(q.grid, s, q.slots)
<1>1. w \in Nat \ {0} /\ q.grid.anchor \in Nat \ {0} /\ q.slots \in Nat
  BY RequestFacts, GridFacts
<1>2. 0 <= s * w /\ s * w < (s + q.slots) * w
  <2>1. 0 * w <= s * w
    BY <1>1, Products
  <2>2. s * w < (s + q.slots) * w
    BY <1>1, Products, s + q.slots \in Int
  <2> QED
    BY <1>1, <2>1, <2>2
<1>3. s * w \in Int /\ (s + q.slots) * w \in Int
  BY <1>1
<1>4. f.low = q.grid.anchor + s * w /\ f.high = q.grid.anchor + (s + q.slots) * w
  BY DEF FrequencyOf
<1> HIDE DEF w, f
<1> QED
  BY <1>1, <1>2, <1>3, <1>4 DEF f

\* Nothing stands in the way of a request only if there is something to
\* allocate, and every domain has a capability that says so.
LEMMA NoObstacle ==
  ASSUME NEW q \in Request, Obstacle(q, {}) = "None"
  PROVE  /\ WellFormed(q) /\ q.slots > 0
         /\ ChannelWidthSupported(q.grid, q.slots)
         /\ \A d \in q.domains : Trouble({}, d) = "None"
<1>1. WellFormed(q) /\ Preparation(q, {}) = "None"
  BY DEF Obstacle
<1>2. ChannelWidthSupported(q.grid, q.slots)
  BY <1>1 DEF Preparation
<1>3. Troubled(q, {}) = {}
  <2> SUFFICES ASSUME Troubled(q, {}) # {} PROVE FALSE
    OBVIOUS
  <2>1. Preparation(q, {}) = Trouble({}, Min(Troubled(q, {})))
    BY <1>2 DEF Preparation
  <2>2. Troubled(q, {}) \in SUBSET Nat
    BY RequestFacts, CandidatesAssumption DEF Troubled
  <2>3. Min(Troubled(q, {})) \in Troubled(q, {})
    BY <2>2, MinOfNaturals
  <2> QED
    BY <1>1, <2>1, <2>3 DEF Troubled
<1> QED
  BY <1>1, <1>2, <1>3 DEF WellFormed, Troubled

\* The tables of the enumeration keep their shape; what a reservation owns is
\* never empty.
THEOREM CandidatesTypes == Spec => []TypeOK
<1>1. Init => TypeOK
  <2> SUFFICES ASSUME Init PROVE TypeOK
    OBVIOUS
  <2>1. generation \in [Domain -> 1..MaxGeneration]
    BY CandidatesAssumption DEF Init
  <2>2. NoCapability \in Capability
    BY DEF NoCapability, Capability, SlotRange, FrequencyRange
  <2>3. NoReservation \in Reservation /\ NoReservation.state = "None"
    BY DEF NoReservation, Reservation
  <2> QED
    BY <2>1, <2>2, <2>3 DEF Init, TypeOK, LiveIds
<1>2. ASSUME TypeOK, [Next]_vars
      PROVE  TypeOK'
  <2> USE <1>2
  <2>1. ASSUME NEW d \in Domain, NEW p \in Publication, Publish(d, p)
        PROVE  TypeOK'
    <3>1. p \in PublicationType
      BY CandidatesAssumption
    <3>2. generation[d] \in Nat
      BY DEF TypeOK
    <3>3. [describes |-> generation[d], support |-> p.support, window |-> p.window,
           tunable |-> p.tunable, contiguityEnforced |-> p.contiguityEnforced,
           conversion |-> p.conversion] \in Capability
      BY <3>1, <3>2 DEF PublicationType, Capability
    <3>4. capability' \in [Domain -> Capability]
      BY <2>1, <3>3 DEF Publish, TypeOK
    <3> QED
      BY <2>1, <3>4 DEF Publish, TypeOK, LiveIds
  <2>2. ASSUME NEW d \in Domain, Redefine(d)
        PROVE  TypeOK'
    <3>1. generation' \in [Domain -> 1..MaxGeneration]
      BY <2>2, CandidatesAssumption DEF Redefine, TypeOK
    <3> QED
      BY <2>2, <3>1 DEF Redefine, TypeOK, LiveIds
  <2>3. ASSUME NEW q \in Request, NEW stale \in SUBSET Outdated, Allocate(q, stale)
        PROVE  TypeOK'
    <3>1. Obstacle(q, stale) = "None" /\ Eligible(q) # {}
      BY <2>3, Granted DEF Allocate
    <3>2. q.slots > 0
      BY <3>1 DEF Obstacle, WellFormed
    <3>3. Selected(q) \in Nat
      BY <3>1, SelectedIsEligible
    <3> DEFINE i == Min({j \in Id : reservations[j].state = "None"})
               f == FrequencyOf(q.grid, Selected(q), q.slots)
               r == [state |-> "Live", domains |-> q.domains, low |-> f.low,
                     high |-> f.high, guard |-> q.guard]
    <3>4. f.low \in Nat \ {0} /\ f.high \in Nat \ {0} /\ f.low < f.high
      BY <3>2, <3>3, ChoiceFacts
    <3>5. reservations' = [reservations EXCEPT ![i] = r]
      BY <2>3 DEF Allocate
    <3> HIDE DEF i, f
    <3>6. r \in Reservation /\ r.low < r.high
      BY <3>4, RequestFacts DEF Reservation
    <3> HIDE DEF r
    <3>7. reservations' \in [Id -> Reservation]
      BY <3>5, <3>6 DEF TypeOK
    <3>8. \A j \in Id : reservations'[j] = reservations[j] \/ reservations'[j] = r
      BY <3>5 DEF TypeOK
    <3>9. \A j \in LiveIds' : reservations'[j].low < reservations'[j].high
      BY <3>6, <3>8 DEF TypeOK, LiveIds
    <3> QED
      BY <2>3, <3>7, <3>9 DEF Allocate, TypeOK
  <2>4. ASSUME NEW i \in Id, End(i)
        PROVE  TypeOK'
    <3> DEFINE r == [reservations[i] EXCEPT !.state = "Ended"]
    <3>1. r \in Reservation /\ r.state = "Ended"
      BY DEF TypeOK, Reservation
    <3>2. reservations' = [reservations EXCEPT ![i] = r]
      BY <2>4 DEF End
    <3> HIDE DEF r
    <3>3. reservations' \in [Id -> Reservation]
      BY <3>1, <3>2 DEF TypeOK
    <3>4. \A j \in Id : j # i => reservations'[j] = reservations[j]
      BY <3>2 DEF TypeOK
    <3>5. reservations'[i].state = "Ended"
      BY <3>1, <3>2 DEF TypeOK
    <3>6. \A j \in LiveIds' : reservations'[j].low < reservations'[j].high
      BY <3>4, <3>5 DEF TypeOK, LiveIds
    <3> QED
      BY <2>4, <3>3, <3>6 DEF End, TypeOK
  <2>5. CASE UNCHANGED vars
    BY <2>5 DEF vars, TypeOK, LiveIds
  <2> QED
    BY <2>1, <2>2, <2>3, <2>4, <2>5 DEF Next
<1> QED
  BY <1>1, <1>2, PTL DEF Spec

-----------------------------------------------------------------------------
(* No placement is overlooked                                              *)

\* The frequencies of a placement say where it begins and how long it is.
LEMMA PlacementUnique ==
  ASSUME NEW g, ValidGrid(g), NEW s \in Nat, NEW n \in Nat, NEW t \in Nat, NEW m \in Nat,
         FrequencyOf(g, s, n) = FrequencyOf(g, t, m)
  PROVE  s = t /\ n = m
<1> DEFINE w == g.width
           c == g.anchor
           y == s + n
           z == t + m
<1>1. w \in Nat \ {0} /\ c \in Int
  BY GridFacts
<1>2. s \in Int /\ t \in Int /\ y \in Int /\ z \in Int
  OBVIOUS
<1>3. c + s * w = c + t * w /\ c + y * w = c + z * w
  BY DEF FrequencyOf
<1> HIDE DEF w, c, y, z
<1>4. s = t
  BY <1>1, <1>2, <1>3, SameProduct
<1>5. y = z
  BY <1>1, <1>2, <1>3, SameProduct
<1> QED
  BY <1>4, <1>5 DEF y, z

\* A channel of a grid is what innerSlotRange and frequencyOfSlotRange make of
\* it: converting it is exact.
LEMMA ConversionExact ==
  ASSUME NEW g, ValidGrid(g), NEW f, IsChannelOf(g, f)
  PROVE  /\ ChannelWidthSupported(g, Cardinality(Inner(g, f)))
         /\ f = FrequencyOf(g, Min(Inner(g, f)), Cardinality(Inner(g, f)))
<1>1. PICK s \in SlotsOf(g), n \in g.minSlots..g.maxSlots :
        s + n <= g.count /\ f = FrequencyOf(g, s, n)
  BY DEF IsChannelOf
<1>2. s \in Nat /\ n \in Nat /\ n > 0 /\ g.minSlots <= n /\ n <= g.maxSlots
  BY <1>1, GridFacts
<1>3. Inner(g, f) = s..(s + n - 1)
  BY <1>1, <1>2, ChannelSlots DEF Slots
<1>4. Cardinality(Inner(g, f)) = n
  BY <1>2, <1>3, FS_Interval, s + n - 1 \in Int
<1>5. Min(Inner(g, f)) = s
  <2>1. Inner(g, f) \in SUBSET Nat /\ s \in Inner(g, f) /\ \A x \in Inner(g, f) : s <= x
    BY <1>2, <1>3
  <2>2. Min(Inner(g, f)) \in Inner(g, f) /\ Min(Inner(g, f)) <= s
    BY <2>1, MinOfNaturals
  <2> QED
    BY <1>2, <2>1, <2>2
<1> QED
  BY <1>1, <1>2, <1>4, <1>5 DEF ChannelWidthSupported

\* A slot that is blocked by a reservation shares a frequency with it once the
\* guards are added: widening and rounding outward block no more than that.
LEMMA BlockedClashes ==
  ASSUME NEW q \in Request, NEW s \in Nat, NEW k \in Slots(s, q.slots),
         NEW r \in Reservation, NEW extra \in Nat,
         k \in Outer(q.grid, Expanded(r, Larger(r.guard, q.guard) + extra))
  PROVE  Clash(Claim(q, FrequencyOf(q.grid, s, q.slots)), r, extra)
<1> DEFINE f == FrequencyOf(q.grid, s, q.slots)
           G == Larger(r.guard, q.guard) + extra
           x == Expanded(r, G)
           a == q.grid.anchor + k * q.grid.width
           b == q.grid.anchor + (k + 1) * q.grid.width
<1>1. r.low \in Nat /\ r.high \in Nat /\ r.guard \in Nat /\ q.guard \in Nat /\ q.slots \in Nat
  BY RequestFacts DEF Reservation
<1>2. G \in Nat /\ G = GuardBetween(Claim(q, f), r) + extra
  BY <1>1 DEF Larger, GuardBetween, Claim
<1>3. /\ f.low \in Int /\ f.high \in Int /\ a \in Int /\ b \in Int /\ k \in Int
      /\ f.low <= a /\ a < b /\ b <= f.high
  BY <1>1, SlotWithin, RequestFacts, GridFacts, s \in Int, q.slots \in Int
<1>4. x.low = (IF r.low < G THEN 0 ELSE r.low - G) /\ x.high = r.high + G
  BY DEF Expanded
<1>5. x.low \in Int /\ x.high \in Int
  BY <1>1, <1>2, <1>4
<1>6. x.low < b /\ a < x.high
  BY <1>3, <1>5, OuterSlots, RequestFacts
<1> HIDE DEF f, G, x, a, b
<1>7. 0 < f.high \/ r.low - G < f.high
  BY <1>1, <1>2, <1>3, <1>4, <1>6
<1>8. r.low - G < f.high /\ f.low - G < r.high
  BY <1>1, <1>2, <1>3, <1>4, <1>6
<1>9. Claim(q, f).low = f.low /\ Claim(q, f).high = f.high
  BY DEF Claim
<1> QED
  BY <1>2, <1>8, <1>9 DEF Clash, FrequencyConflict, f

\* The part of TypeOK that the enumeration itself relies on.
Shaped == capability \in [Domain -> Capability] /\ reservations \in [Id -> Reservation]

\* A placement a request may have is among the candidates.
LEMMA PossibleStarts ==
  ASSUME Shaped, NEW q \in Request, Obstacle(q, {}) = "None", Anchored(q) # {},
         NEW s \in Possible(q)
  PROVE  s \in Starts(q)
<1> DEFINE f == FrequencyOf(q.grid, s, q.slots)
<1>1. q.slots \in Nat /\ q.slots > 0 /\ ValidGrid(q.grid) /\ q.domains \subseteq Domain
  BY NoObstacle, RequestFacts
<1>2. s \in Nat /\ s \in SlotsOf(q.grid)
  BY <1>1, GridFacts DEF Possible
<1>3. Admissible(q, f) /\ InEveryWindow(q, f) /\ Unowned(q, f) /\ KeptApart(q, f)
  BY DEF Possible
<1>4. PICK d \in Anchored(q) : TRUE
  OBVIOUS
<1>5. d \in q.domains /\ d \in Domain /\ GridOf[d] = q.grid
  BY <1>1, <1>4 DEF Anchored, ConversionRequired
<1>6. s + q.slots <= q.grid.count
  <2>1. PICK t \in SlotsOf(q.grid), n \in q.grid.minSlots..q.grid.maxSlots :
          t + n <= q.grid.count /\ f = FrequencyOf(q.grid, t, n)
    BY <1>3, <1>5 DEF Admissible, IsChannelOf
  <2>2. t \in Nat /\ n \in Nat
    BY <1>1, <2>1, GridFacts
  <2> QED
    BY <1>1, <1>2, <2>1, <2>2, PlacementUnique
<1>7. capability[d] \in Capability
  BY <1>5 DEF Shaped
<1>8. Slots(s, q.slots) \subseteq WindowOf(q, d)
  <2> DEFINE c == capability[d]
             w == q.grid.width
  <2>1. c.tunable.low \in Int /\ c.tunable.high \in Int
    BY <1>7 DEF Capability, FrequencyRange
  <2>2. Contains(c.tunable, f)
    BY <1>3, <1>5 DEF Admissible
  <2>3. Slots(s, q.slots) \subseteq Inner(q.grid, c.tunable)
    BY <1>1, <1>2, <1>6, <2>1, <2>2, InnerCovers
  <2>4. c.window.first \in Nat /\ c.window.count \in Nat
    BY <1>7 DEF Capability, SlotRange
  <2>5. Contains(FrequencyOf(q.grid, c.window.first, c.window.count), f)
    BY <1>3, <1>5 DEF InEveryWindow, AllocatableRange
  <2>6. w \in Nat \ {0} /\ q.grid.anchor \in Int
    BY <1>1, GridFacts
  <2> DEFINE x == c.window.first
             y == c.window.first + c.window.count
             z == s + q.slots
  <2>7. x \in Int /\ y \in Int /\ z \in Int /\ s \in Int
    BY <1>1, <1>2, <2>4
  <2>8. /\ q.grid.anchor + x * w <= q.grid.anchor + s * w
        /\ q.grid.anchor + z * w <= q.grid.anchor + y * w
    BY <2>5 DEF Contains, FrequencyOf
  <2>9. x * w \in Int /\ s * w \in Int /\ y * w \in Int /\ z * w \in Int
    BY <2>6, <2>7
  <2> HIDE DEF x, y, z, w
  <2>10. x * w <= s * w /\ z * w <= y * w
    BY <2>6, <2>8, <2>9
  <2>11. x <= s /\ z <= y
    BY <2>6, <2>7, <2>10, Products
  <2>12. Slots(s, q.slots) \subseteq Slots(c.window.first, c.window.count)
    BY <1>1, <1>2, <2>4, <2>11 DEF Slots, x, y, z
  <2> QED
    BY <2>3, <2>12 DEF WindowOf
<1>9. Slots(s, q.slots) \subseteq SearchWindow(q)
  <2>1. Slots(s, q.slots) \subseteq UNION {WindowOf(q, e) : e \in Anchored(q)}
    BY <1>4, <1>8
  <2>2. CASE q.windows = {}
    BY <2>1, <2>2 DEF SearchWindow
  <2>3. CASE q.windows # {}
    <3>1. PICK w \in q.windows : Contains(w, f)
      BY <1>3, <2>3 DEF Admissible
    <3>2. w.low \in Int /\ w.high \in Int
      BY RequestFacts DEF RequestType, FrequencyRange
    <3>3. Slots(s, q.slots) \subseteq Inner(q.grid, w)
      BY <1>1, <1>2, <1>6, <3>1, <3>2, InnerCovers
    <3>4. Slots(s, q.slots) \subseteq UNION {Inner(q.grid, v) : v \in q.windows}
      BY <3>1, <3>3
    <3> QED
      BY <2>1, <2>3, <3>4 DEF SearchWindow
  <2> QED
    BY <2>2, <2>3
<1>10. ASSUME NEW k \in Slots(s, q.slots), k \in BlockedSlots(q)
       PROVE  FALSE
  <2>1. PICK b \in Blocks(q) :
          k \in Outer(q.grid, Expanded(reservations[b[1]],
                   Larger(reservations[b[1]].guard, q.guard) + b[2]))
    BY <1>10 DEF BlockedSlots
  <2>2. \/ \E i \in LiveIds : /\ b = <<i, 0>>
                              /\ \/ reservations[i].domains \cap q.domains # {}
                                 \/ i \in q.apart
        \/ \E e \in Exclusion, i \in LiveIds :
             /\ b = <<i, e.guard>>
             /\ \E m \in q.domains \cap e.members :
                  reservations[i].domains \cap (e.members \ {m}) # {}
    BY <2>1 DEF Blocks
  <2>3. ASSUME NEW i \in LiveIds, NEW extra \in Nat, b = <<i, extra>>
        PROVE  Clash(Claim(q, f), reservations[i], extra)
    <3>1. reservations[i] \in Reservation
      BY DEF Shaped, LiveIds
    <3>2. k \in Outer(q.grid, Expanded(reservations[i],
                   Larger(reservations[i].guard, q.guard) + extra))
      BY <2>1, <2>3
    <3> QED
      BY <1>2, <1>10, <3>1, <3>2, BlockedClashes
  <2>4. ASSUME NEW i \in LiveIds, b = <<i, 0>>,
               \/ reservations[i].domains \cap q.domains # {}
               \/ i \in q.apart
        PROVE  FALSE
    <3>1. Clash(Claim(q, f), reservations[i], 0)
      BY <2>3, <2>4
    <3> QED
      BY <1>3, <2>4, <3>1 DEF Unowned, KeptApart, ShareDomain
  <2>5. ASSUME NEW e \in Exclusion, NEW i \in LiveIds, b = <<i, e.guard>>,
               NEW m \in q.domains \cap e.members,
               reservations[i].domains \cap (e.members \ {m}) # {}
        PROVE  FALSE
    <3>1. e.guard \in Nat
      BY CandidatesAssumption
    <3>2. Clash(Claim(q, f), reservations[i], e.guard)
      BY <2>3, <2>5, <3>1
    <3>3. PICK n \in reservations[i].domains \cap e.members : n # m
      BY <2>5
    <3> QED
      BY <1>3, <3>2, <3>3 DEF Unowned
  <2> QED
    BY <2>2, <2>4, <2>5
<1>11. s \in Slots(s, q.slots)
  BY <1>1, <1>2 DEF Slots
<1> QED
  BY <1>9, <1>10, <1>11 DEF Starts

\* An end that wraps around is before the one that does not: slot ranges that
\* overlap in words overlap in frequencies.
LEMMA OverlapsInFrequency ==
  ASSUME NEW g, ValidGrid(g), NEW r \in SlotRange, NEW c \in SlotRange, OverlapsSlots(r, c)
  PROVE  OverlapsFrequency(FrequencyOf(g, c.first, c.count), FrequencyOf(g, r.first, r.count))
<1> DEFINE w == g.width
           x == r.first + r.count
           y == c.first + c.count
           p == r.first
           t == c.first
<1>1. w \in Nat \ {0} /\ g.anchor \in Int /\ SlotWord \in Nat \ {0}
  BY GridFacts, CandidatesAssumption
<1>2. x \in Nat /\ y \in Nat /\ p \in Nat /\ t \in Nat
  BY DEF SlotRange
<1>3. p < y % SlotWord /\ t < x % SlotWord
  BY DEF OverlapsSlots, SlotEnd
<1>4. FrequencyOf(g, p, r.count).low = g.anchor + p * w
  BY DEF FrequencyOf
<1>5. FrequencyOf(g, p, r.count).high = g.anchor + x * w
  BY DEF FrequencyOf
<1>6. FrequencyOf(g, t, c.count).low = g.anchor + t * w
  BY DEF FrequencyOf
<1>7. FrequencyOf(g, t, c.count).high = g.anchor + y * w
  BY DEF FrequencyOf
<1> HIDE DEF w, x, y, p, t
<1>8. y % SlotWord <= y /\ y % SlotWord \in Int
  BY <1>1, <1>2
<1>9. x % SlotWord <= x /\ x % SlotWord \in Int
  BY <1>1, <1>2
<1>10. p < y /\ t < x
  BY <1>2, <1>3, <1>8, <1>9
<1>11. p * w < y * w
  BY <1>1, <1>2, <1>10, Products
<1>12. t * w < x * w
  BY <1>1, <1>2, <1>10, Products
<1>13. p * w \in Int /\ y * w \in Int /\ t * w \in Int /\ x * w \in Int
  BY <1>1, <1>2
<1>14. g.anchor + p * w < g.anchor + y * w /\ g.anchor + t * w < g.anchor + x * w
  BY <1>1, <1>11, <1>12, <1>13
<1> QED
  BY <1>4, <1>5, <1>6, <1>7, <1>14 DEF OverlapsFrequency, p, t

\* Nothing is said against a placement a request may have.
LEMMA PossibleVerdict ==
  ASSUME NEW q \in Request, NEW s \in Possible(q)
  PROVE  Verdict(q, s) = "Allocated"
<1> DEFINE f == FrequencyOf(q.grid, s, q.slots)
<1>1. ValidGrid(q.grid) /\ q.slots \in Nat /\ q.domains \subseteq Domain
  BY RequestFacts
<1>2. s \in Nat
  BY <1>1, GridFacts DEF Possible
<1>3. Admissible(q, f) /\ Unowned(q, f)
  BY DEF Possible
<1>4. Unconstrained(q, s)
  <2>1. q.windows # {} => \E w \in q.windows : Contains(w, f)
    BY <1>3 DEF Admissible
  <2>2. ASSUME NEW r \in q.excludedSlots, OverlapsSlots(r, [first |-> s, count |-> q.slots])
        PROVE  FALSE
    <3>1. r \in SlotRange
      BY RequestFacts DEF RequestType
    <3>2. [first |-> s, count |-> q.slots] \in SlotRange
      BY <1>1, <1>2 DEF SlotRange
    <3>3. OverlapsFrequency(f, FrequencyOf(q.grid, r.first, r.count))
      BY <1>1, <2>2, <3>1, <3>2, OverlapsInFrequency
    <3> QED
      BY <1>3, <3>3 DEF Admissible
  <2>3. ASSUME NEW r \in q.excludedFrequencies
        PROVE  ~OverlapsFrequency(r, f)
    BY <1>3 DEF Admissible, OverlapsFrequency
  <2> QED
    BY <2>1, <2>2, <2>3 DEF Unconstrained
<1>5. ASSUME NEW d \in q.domains
      PROVE  Unfit(q, d, f) = "None"
  <2>1. /\ Contains(capability[d].tunable, f)
        /\ IsChannelOf(GridOf[d], f)
        /\ q.slots > 1 /\ q.fragments => Contiguous(d)
    BY <1>3 DEF Admissible
  <2>2. ValidGrid(GridOf[d])
    BY <1>1, CandidatesAssumption
  <2>3. /\ ChannelWidthSupported(GridOf[d], Cardinality(Inner(GridOf[d], f)))
        /\ f = FrequencyOf(GridOf[d], Min(Inner(GridOf[d], f)),
                           Cardinality(Inner(GridOf[d], f)))
    BY <2>1, <2>2, ConversionExact
  <2> QED
    BY <2>1, <2>3 DEF Unfit
<1>6. \A d \in q.domains : Owners(q, d, f) = {}
  BY <1>3, NoOwnerNoClash
<1> QED
  BY <1>4, <1>5, <1>6, VerdictOutcomes

\* There are no more starts below a slot than slots.
LEMMA LowerStarts ==
  ASSUME NEW q \in Request, NEW s \in Nat
  PROVE  /\ Cardinality({t \in Starts(q) : t < s}) \in Nat
         /\ Cardinality({t \in Starts(q) : t < s}) <= s
<1> DEFINE T == {t \in Starts(q) : t < s}
           J == 0..(s - 1)
<1>1. SlotsOf(q.grid) \subseteq Nat
  BY RequestFacts, GridFacts
<1>2. Starts(q) \subseteq SlotsOf(q.grid)
  BY DEF Starts, SearchWindow, WindowOf, Inner
<1>3. IsFiniteSet(J) /\ Cardinality(J) = s
  BY FS_Interval
<1>4. \A t \in T : t \in J
  BY <1>1, <1>2
<1> HIDE DEF T, J
<1>5. T \subseteq J
  BY <1>4
<1>6. Cardinality(T) \in Nat /\ Cardinality(T) <= s
  BY <1>3, <1>5, FS_Subset, FS_CardinalityType
<1> QED
  BY <1>6 DEF T

\* Every placement a request may have that was not cut off is eligible.
LEMMA PossibleEligible ==
  ASSUME Shaped, NEW q \in Request, Obstacle(q, {}) = "None", Anchored(q) # {},
         NEW s \in Possible(q), ~CutOff(q, s)
  PROVE  s \in Eligible(q)
<1>1. s \in Starts(q)
  BY PossibleStarts
<1>2. s \in Nat
  BY RequestFacts, GridFacts DEF Possible
<1>3. Cardinality({t \in Starts(q) : t < s}) < MaxCandidates
  <2> DEFINE n == Cardinality({t \in Starts(q) : t < s})
  <2>1. n \in Nat /\ MaxCandidates \in Nat /\ ~(n >= MaxCandidates)
    BY <1>2, LowerStarts, CandidatesAssumption DEF CutOff
  <2> HIDE DEF n
  <2>2. n < MaxCandidates
    BY <2>1
  <2> QED
    BY <2>2 DEF n
<1>4. s \in Listed(q)
  BY <1>1, <1>3 DEF Retained, Lowest, Listed
<1> QED
  BY <1>4, PossibleVerdict DEF Eligible

\* A list with room for every slot of the grid of a request loses none of its
\* candidates.
LEMMA RoomForAll ==
  ASSUME NEW q \in Request, q.grid.count <= MaxCandidates, NEW s \in SlotsOf(q.grid)
  PROVE  ~CutOff(q, s)
<1> DEFINE n == Cardinality({t \in Starts(q) : t < s})
<1>1. s \in Nat /\ q.grid.count \in Nat /\ s < q.grid.count
  BY RequestFacts, GridFacts DEF SlotsOf
<1>2. n \in Nat /\ n <= s /\ MaxCandidates \in Nat
  BY <1>1, LowerStarts, CandidatesAssumption
<1> HIDE DEF n
<1>3. ~(n >= MaxCandidates)
  BY <1>1, <1>2
<1> QED
  BY <1>3 DEF CutOff, n

\* On every grid and with every guard: a request that is looked at is refused
\* only if every placement there is for it was cut off by lower starts.
THEOREM RefusalsJustified == Spec => []NothingOverlooked
<1>1. TypeOK => NothingOverlooked
  BY PossibleEligible, Granted DEF NothingOverlooked, TypeOK, Shaped
<1> QED
  BY <1>1, CandidatesTypes, PTL

\* The placement selected is the lowest of those the request may have and that
\* were not cut off. A request none of whose domains is on its grid has no
\* candidates, and so none is granted without one.
THEOREM LowestSelected == Spec => []LowestFirst
<1>1. TypeOK => LowestFirst
  <2> SUFFICES ASSUME TypeOK, NEW q \in Request, Conclusion(q, {}) = "Allocated",
                      NEW s \in Possible(q), ~CutOff(q, s)
               PROVE  Selected(q) <= s
    BY DEF LowestFirst
  <2>1. Obstacle(q, {}) = "None" /\ Eligible(q) # {}
    BY Granted
  <2>2. Selected(q) \in Listed(q)
    BY <2>1, SelectedIsEligible
  <2>3. Anchored(q) # {}
    BY <2>2, ListedInWindow
  <2>4. s \in Eligible(q)
    BY <2>1, <2>3, PossibleEligible DEF TypeOK, Shaped
  <2> QED
    BY <2>1, <2>4, SelectedIsEligible
<1> QED
  BY <1>1, CandidatesTypes, PTL

-----------------------------------------------------------------------------
(* What is granted is what was asked for                                   *)

\* Where the placement of a granted request lies.
LEMMA GrantedPlace ==
  ASSUME NEW q \in Request, Conclusion(q, {}) = "Allocated"
  PROVE  /\ Obstacle(q, {}) = "None"
         /\ Selected(q) \in Nat /\ Selected(q) + q.slots <= q.grid.count
         /\ Selected(q) \in SlotsOf(q.grid)
         /\ Slots(Selected(q), q.slots) \subseteq SearchWindow(q)
         /\ Verdict(q, Selected(q)) = "Allocated"
<1> DEFINE s == Selected(q)
<1>1. Obstacle(q, {}) = "None" /\ Eligible(q) # {}
  BY Granted
<1>2. s \in Listed(q) /\ s \in Nat /\ Verdict(q, s) = "Allocated"
  BY <1>1, SelectedIsEligible
<1>3. s \in SlotsOf(q.grid) /\ Slots(s, q.slots) \subseteq SlotsOf(q.grid)
  BY <1>2, ListedInWindow
<1>4. q.slots \in Nat /\ q.slots > 0 /\ q.grid.count \in Nat
  BY <1>1, NoObstacle, RequestFacts, GridFacts
<1> HIDE DEF s
<1>5. s + q.slots - 1 \in Slots(s, q.slots)
  BY <1>2, <1>4 DEF Slots
<1>6. s + q.slots <= q.grid.count
  BY <1>2, <1>3, <1>4, <1>5 DEF SlotsOf
<1>7. Slots(s, q.slots) \subseteq SearchWindow(q)
  BY <1>2, ListedInWindow
<1> QED
  BY <1>1, <1>2, <1>3, <1>6, <1>7 DEF s

\* The inner slots of a range, if there are any, are an interval of the grid.
LEMMA InnerInterval ==
  ASSUME NEW g, ValidGrid(g), NEW f, f.low \in Int, f.high \in Int, Inner(g, f) # {}
  PROVE  /\ Min(Inner(g, f)) \in SlotsOf(g) /\ Cardinality(Inner(g, f)) \in Nat
         /\ Min(Inner(g, f)) + Cardinality(Inner(g, f)) <= g.count
<1> DEFINE S == Inner(g, f)
           c == CeilDiv(f.low - g.anchor, g.width)
           e == FloorDiv(f.high - g.anchor, g.width)
           m == Min(S)
           z == IF e < g.count THEN e ELSE g.count
<1>1. g.width \in Nat \ {0} /\ g.anchor \in Int /\ g.count \in Nat
  BY GridFacts
<1>2. c \in Int /\ e \in Int
  BY <1>1, Floors, Ceilings, 0 \in Int, f.low - g.anchor \in Int, f.high - g.anchor \in Int
<1>3. S = {k \in 0..(g.count - 1) : c <= k /\ k < e}
  BY DEF Inner, SlotsOf
<1> HIDE DEF c, e, S
<1>4. S \in SUBSET Nat
  BY <1>1, <1>3
<1>5. m \in S /\ \A x \in S : m <= x
  BY <1>4, MinOfNaturals DEF S
<1>6. m \in Nat /\ m < z /\ z \in Nat /\ z <= g.count /\ c <= m
  BY <1>1, <1>2, <1>3, <1>4, <1>5
<1>7. S = m..(z - 1)
  <2>1. ASSUME NEW k \in S PROVE k \in m..(z - 1)
    BY <1>1, <1>2, <1>3, <1>4, <1>5, <1>6, <2>1
  <2>2. ASSUME NEW k \in m..(z - 1) PROVE k \in S
    BY <1>1, <1>2, <1>3, <1>6, <2>2
  <2> QED
    BY <2>1, <2>2
<1> HIDE DEF m, z
<1>8. Cardinality(S) = z - m
  BY <1>6, <1>7, FS_Interval, z - 1 \in Int
<1> QED
  BY <1>1, <1>3, <1>5, <1>6, <1>8 DEF S, m, SlotsOf

\* What a fit of a domain that is not on the request's grid amounts to.
LEMMA ConvertedChannel ==
  ASSUME NEW g, ValidGrid(g), NEW f, f.low \in Int, f.high \in Int,
         ChannelWidthSupported(g, Cardinality(Inner(g, f))),
         f = FrequencyOf(g, Min(Inner(g, f)), Cardinality(Inner(g, f)))
  PROVE  IsChannelOf(g, f)
<1> DEFINE n == Cardinality(Inner(g, f))
<1>1. g.minSlots <= n /\ n <= g.maxSlots /\ g.minSlots \in Nat \ {0} /\ g.maxSlots \in Nat
  BY GridFacts DEF ChannelWidthSupported
<1>2. Inner(g, f) # {}
  <2> SUFFICES ASSUME Inner(g, f) = {} PROVE FALSE
    OBVIOUS
  <2>1. n = 0
    BY FS_EmptySet
  <2> QED
    BY <1>1, <2>1
<1>3. /\ Min(Inner(g, f)) \in SlotsOf(g) /\ n \in Nat
      /\ Min(Inner(g, f)) + n <= g.count
  BY <1>2, InnerInterval
<1>4. n \in g.minSlots..g.maxSlots
  BY <1>1, <1>3
<1> QED
  BY <1>3, <1>4 DEF IsChannelOf

\* No range of slots that is compared ends beyond what a word can hold.
NoRangeWraps ==
  \A q \in Request :
    /\ q.grid.count < SlotWord
    /\ \A r \in q.excludedSlots : r.first + r.count < SlotWord

\* Where nothing wraps, ranges that share a frequency share a slot.
LEMMA OverlapsInSlots ==
  ASSUME NEW g, ValidGrid(g), NEW r \in SlotRange, NEW c \in SlotRange,
         r.first + r.count < SlotWord, c.first + c.count < SlotWord,
         OverlapsFrequency(FrequencyOf(g, c.first, c.count), FrequencyOf(g, r.first, r.count))
  PROVE  OverlapsSlots(r, c)
<1> DEFINE w == g.width
           x == r.first + r.count
           y == c.first + c.count
           p == r.first
           t == c.first
<1>1. w \in Nat \ {0} /\ g.anchor \in Int /\ SlotWord \in Nat \ {0}
  BY GridFacts, CandidatesAssumption
<1>2. x \in Nat /\ y \in Nat /\ p \in Nat /\ t \in Nat
  BY DEF SlotRange
<1>3. g.anchor + p * w < g.anchor + y * w /\ g.anchor + t * w < g.anchor + x * w
  BY DEF OverlapsFrequency, FrequencyOf
<1>4. x < SlotWord /\ y < SlotWord
  OBVIOUS
<1>5. SlotEnd(r) = x % SlotWord /\ SlotEnd(c) = y % SlotWord
  BY DEF SlotEnd
<1> HIDE DEF w, x, y, p, t
<1>6. p * w \in Int /\ y * w \in Int /\ t * w \in Int /\ x * w \in Int
  BY <1>1, <1>2
<1>7. p * w < y * w /\ t * w < x * w
  BY <1>1, <1>3, <1>6
<1>8. p < y
  BY <1>1, <1>2, <1>7, Products
<1>9. t < x
  BY <1>1, <1>2, <1>7, Products
<1>10. x % SlotWord = x /\ y % SlotWord = y
  BY <1>1, <1>2, <1>4
<1> QED
  BY <1>5, <1>8, <1>9, <1>10 DEF OverlapsSlots, p, t

\* If no excluded range wraps around, what is granted is what was asked for, on
\* grids that are aligned or not, on the word of a current capability.
THEOREM GrantedAsRequested ==
  ASSUME NoRangeWraps
  PROVE  Spec => []AsRequested
<1>1. ASSUME TypeOK, NEW q \in Request, Conclusion(q, {}) = "Allocated"
      PROVE  /\ Admissible(q, Choice(q))
             /\ \A d \in q.domains :
                  capability[d].describes = generation[d]
                    /\ capability[d].support = "Supported"
  <2> USE <1>1
  <2> DEFINE s == Selected(q)
             f == FrequencyOf(q.grid, s, q.slots)
  <2>1. /\ Obstacle(q, {}) = "None" /\ Verdict(q, s) = "Allocated"
        /\ s \in Nat /\ s + q.slots <= q.grid.count /\ s \in SlotsOf(q.grid)
    BY GrantedPlace
  <2>2. /\ q.slots \in Nat /\ q.slots > 0 /\ ValidGrid(q.grid) /\ q.domains \subseteq Domain
        /\ ChannelWidthSupported(q.grid, q.slots)
        /\ \A d \in q.domains : Trouble({}, d) = "None"
    BY <2>1, NoObstacle, RequestFacts
  <2>3. Unconstrained(q, s) /\ \A d \in q.domains : Unfit(q, d, f) = "None"
    BY <2>1, VerdictOutcomes
  <2>4. f.low \in Int /\ f.high \in Int
    BY <2>1, <2>2, ChoiceFacts
  <2> HIDE DEF s
  <2>5. ASSUME NEW d \in q.domains
        PROVE  capability[d].describes = generation[d] /\ capability[d].support = "Supported"
    <3>1. /\ capability[d].describes = generation[d]
          /\ capability[d].support # "Unsupported" /\ capability[d].support # "Unknown"
      BY <2>2 DEF Trouble
    <3>2. capability[d].support \in {"Supported", "Unsupported", "Unknown"}
      BY <2>2 DEF TypeOK, Capability
    <3> QED
      BY <3>1, <3>2
  <2>6. ASSUME NEW d \in q.domains
        PROVE  /\ Contains(capability[d].tunable, f)
               /\ IsChannelOf(GridOf[d], f)
               /\ q.slots > 1 /\ q.fragments => Contiguous(d)
    <3>1. ValidGrid(GridOf[d])
      BY <2>2, CandidatesAssumption
    <3>2. Unfit(q, d, f) = "None"
      BY <2>3
    <3>3. Contains(capability[d].tunable, f) /\ (q.slots > 1 /\ q.fragments => Contiguous(d))
      BY <3>2 DEF Unfit
    <3>4. CASE ConversionRequired(q, d)
      <4>1. /\ ChannelWidthSupported(GridOf[d], Cardinality(Inner(GridOf[d], f)))
            /\ f = FrequencyOf(GridOf[d], Min(Inner(GridOf[d], f)),
                               Cardinality(Inner(GridOf[d], f)))
        BY <3>2, <3>3, <3>4 DEF Unfit
      <4> QED
        BY <2>4, <3>1, <3>3, <4>1, ConvertedChannel
    <3>5. CASE ~ConversionRequired(q, d)
      <4>1. GridOf[d] = q.grid
        BY <3>5 DEF ConversionRequired
      <4>2. q.slots \in q.grid.minSlots..q.grid.maxSlots
        BY <2>2, GridFacts DEF ChannelWidthSupported
      <4>3. IsChannelOf(q.grid, f)
        BY <2>1, <4>2 DEF IsChannelOf
      <4> QED
        BY <3>3, <4>1, <4>3
    <3> QED
      BY <3>4, <3>5
  <2>7. ASSUME NEW r \in q.excludedSlots
        PROVE  ~OverlapsFrequency(f, FrequencyOf(q.grid, r.first, r.count))
    <3> DEFINE c == [first |-> s, count |-> q.slots]
    <3>1. r \in SlotRange /\ c \in SlotRange
      BY <2>1, <2>2, RequestFacts DEF RequestType, SlotRange
    <3>2. r.first + r.count < SlotWord /\ c.first + c.count < SlotWord
      BY <2>1, <2>2, CandidatesAssumption, GridFacts DEF NoRangeWraps
    <3>3. ~OverlapsSlots(r, c)
      BY <2>3 DEF Unconstrained
    <3>4. f = FrequencyOf(q.grid, c.first, c.count)
      OBVIOUS
    <3> HIDE DEF c, f
    <3> QED
      BY <2>2, <3>1, <3>2, <3>3, <3>4, OverlapsInSlots
  <2>8. /\ q.windows # {} => \E w \in q.windows : Contains(w, f)
        /\ \A r \in q.excludedFrequencies : ~OverlapsFrequency(f, r)
    BY <2>3 DEF Unconstrained, OverlapsFrequency
  <2>9. Admissible(q, f)
    BY <2>6, <2>7, <2>8 DEF Admissible
  <2> QED
    BY <2>5, <2>9 DEF Choice, s
<1>2. TypeOK => AsRequested
  BY <1>1 DEF AsRequested
<1> QED
  BY <1>2, CandidatesTypes, PTL

-----------------------------------------------------------------------------
(* Usage                                                                   *)

\* A slot that lies inside what a live reservation of the domain owns clashes
\* with that reservation, guards or not.
LEMMA OwnedClashes ==
  ASSUME NEW q \in Request, NEW s \in Nat, NEW k \in Slots(s, q.slots),
         NEW r \in Reservation, k \in Inner(q.grid, r)
  PROVE  Clash(Claim(q, FrequencyOf(q.grid, s, q.slots)), r, 0)
<1> DEFINE f == FrequencyOf(q.grid, s, q.slots)
           a == q.grid.anchor + k * q.grid.width
           b == q.grid.anchor + (k + 1) * q.grid.width
           c == Claim(q, f)
           G == GuardBetween(c, r)
<1>1. r.low \in Nat /\ r.high \in Nat /\ r.guard \in Nat /\ q.guard \in Nat /\ q.slots \in Nat
  BY RequestFacts DEF Reservation
<1>2. G \in Nat
  BY <1>1 DEF GuardBetween, Claim
<1>3. /\ f.low \in Int /\ f.high \in Int /\ a \in Int /\ b \in Int /\ k \in Int
      /\ f.low <= a /\ a < b /\ b <= f.high
  BY <1>1, SlotWithin, RequestFacts, GridFacts, s \in Int, q.slots \in Int
<1>4. r.low <= a /\ b <= r.high
  BY <1>1, <1>3, InnerSlots, RequestFacts
<1>5. c.low = f.low /\ c.high = f.high
  BY DEF Claim
<1> HIDE DEF f, a, b, c, G
<1>6. c.low - (G + 0) < r.high /\ r.low - (G + 0) < c.high
  BY <1>1, <1>2, <1>3, <1>4, <1>5
<1> QED
  BY <1>6 DEF Clash, FrequencyConflict, G, c, f

\* The occupancy a query reports and the enumeration speak of the same slots,
\* whatever is published, registered again or owned.
THEOREM UsageIsFaithful == Spec => []UsageAgrees
<1>1. ASSUME TypeOK, NEW d \in Domain
      PROVE  /\ Usage(d).runs # {} => Trouble({}, d) = "None"
             /\ Usage(d).free <= Cardinality(Usage(d).runs)
  <2> USE <1>1
  <2> DEFINE A == AllocatableWindow(d)
             L == LiveSlots(d)
  <2>1. generation[d] \in 1..MaxGeneration /\ capability[d] \in Capability
    BY DEF TypeOK
  <2>2. Usage(d).runs # {} => Trouble({}, d) = "None"
    <3> SUFFICES ASSUME Usage(d).runs # {} PROVE Trouble({}, d) = "None"
      OBVIOUS
    <3>1. A # {}
      BY DEF Usage
    <3>2. capability[d].describes = generation[d] /\ capability[d].support = "Supported"
      BY <3>1 DEF AllocatableWindow
    <3> QED
      BY <2>1, <3>2, CandidatesAssumption DEF Trouble
  <2>3. IsFiniteSet(A)
    <3>1. capability[d].window.first \in Nat /\ capability[d].window.count \in Nat
      BY <2>1 DEF Capability, SlotRange
    <3> DEFINE x == capability[d].window.first
               y == capability[d].window.first + capability[d].window.count - 1
    <3>2. x \in Int /\ y \in Int
      BY <3>1
    <3> HIDE DEF x, y
    <3>3. IsFiniteSet(x..y)
      BY <3>2, FS_Interval
    <3>4. IsFiniteSet(Slots(capability[d].window.first, capability[d].window.count))
      BY <3>3 DEF Slots, x, y
    <3> QED
      BY <3>4, FS_EmptySet DEF AllocatableWindow
  <2>4. IsFiniteSet(L)
    <3>1. ValidGrid(GridOf[d])
      BY CandidatesAssumption
    <3>2. IsFiniteSet(SlotsOf(GridOf[d]))
      BY <3>1, GridFacts, FS_Interval, 0 \in Int, GridOf[d].count - 1 \in Int DEF SlotsOf
    <3>3. L \in SUBSET SlotsOf(GridOf[d])
      BY DEF LiveSlots, Inner
    <3> QED
      BY <3>2, <3>3, FS_Subset
  <2>5. /\ Usage(d).runs = A \ L
        /\ Usage(d).free = IF Cardinality(A) > Cardinality(L)
                            THEN Cardinality(A) - Cardinality(L) ELSE 0
    BY DEF Usage
  <2> HIDE DEF A, L
  <2>6. Cardinality(A) \in Nat /\ Cardinality(L) \in Nat
    BY <2>3, <2>4, FS_CardinalityType
  <2>7. IsFiniteSet(A \ L) /\ Cardinality(A \ L) = Cardinality(A) - Cardinality(A \cap L)
    BY <2>3, FS_Difference
  <2>8. IsFiniteSet(A \cap L) /\ Cardinality(A \cap L) <= Cardinality(L)
    BY <2>4, FS_Intersection
  <2>9. Cardinality(A \ L) \in Nat /\ Cardinality(A \cap L) \in Nat
    BY <2>7, <2>8, FS_CardinalityType
  <2>10. Usage(d).free <= Cardinality(A \ L)
    BY <2>5, <2>6, <2>7, <2>8, <2>9
  <2> QED
    BY <2>2, <2>5, <2>10
<1>2. ASSUME TypeOK, NEW q \in Request, NEW d \in Anchored(q),
             Conclusion(q, {}) = "Allocated", q.domains = {d}
      PROVE  Slots(Selected(q), q.slots) \subseteq Usage(d).runs
  <2> USE <1>2
  <2> DEFINE s == Selected(q)
             f == FrequencyOf(q.grid, s, q.slots)
  <2>1. /\ Obstacle(q, {}) = "None" /\ Verdict(q, s) = "Allocated"
        /\ s \in Nat /\ Slots(s, q.slots) \subseteq SearchWindow(q)
    BY GrantedPlace
  <2>2. d \in q.domains /\ d \in Domain /\ GridOf[d] = q.grid /\ Anchored(q) = {d}
    BY RequestFacts DEF Anchored, ConversionRequired
  <2>3. Trouble({}, d) = "None"
    BY <2>1, <2>2, NoObstacle
  <2>4. capability[d].describes = generation[d] /\ capability[d].support = "Supported"
    <3>1. /\ capability[d].describes = generation[d]
          /\ capability[d].support # "Unsupported" /\ capability[d].support # "Unknown"
      BY <2>3 DEF Trouble
    <3>2. capability[d].support \in {"Supported", "Unsupported", "Unknown"}
      BY <2>2 DEF TypeOK, Capability
    <3> QED
      BY <3>1, <3>2
  <2>5. SearchWindow(q) \subseteq AllocatableWindow(d)
    <3>1. SearchWindow(q) \subseteq WindowOf(q, d)
      BY <2>2 DEF SearchWindow
    <3> QED
      BY <2>4, <3>1 DEF WindowOf, AllocatableWindow
  <2>6. Owners(q, d, f) = {}
    BY <2>1, <2>2, VerdictOutcomes
  <2> HIDE DEF s
  <2>7. ASSUME NEW k \in Slots(s, q.slots), k \in LiveSlots(d)
        PROVE  FALSE
    <3>1. PICK i \in LiveIds :
            d \in reservations[i].domains /\ k \in Inner(GridOf[d], reservations[i])
      BY <2>7 DEF LiveSlots
    <3>2. reservations[i] \in Reservation
      BY DEF TypeOK, LiveIds
    <3>3. Clash(Claim(q, f), reservations[i], 0)
      BY <2>1, <2>2, <2>7, <3>1, <3>2, OwnedClashes
    <3> QED
      BY <2>6, <3>1, <3>3 DEF Owners, OwnersHere
  <2>8. Slots(s, q.slots) \subseteq AllocatableWindow(d) \ LiveSlots(d)
    BY <2>1, <2>5, <2>7
  <2> QED
    BY <2>8 DEF Usage, s
<1>3. TypeOK => UsageAgrees
  BY <1>1, <1>2 DEF UsageAgrees
<1> QED
  BY <1>3, CandidatesTypes, PTL
=============================================================================
