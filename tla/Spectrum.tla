------------------------------ MODULE Spectrum ------------------------------
(***************************************************************************)
(* The geometry of competing claims: half-open frequency ranges, guard     *)
(* bands and the two conflict tests of runtime_core.cpp. A claim is any    *)
(* record with the fields domains, low, high and guard; frequencies are    *)
(* counted in slots of one grid.                                           *)
(***************************************************************************)
EXTENDS Integers

\* frequencyConflict(a, guardA, b, guardB). Both ranges of a claim are
\* non-empty, so the early return for an empty range never applies, and the
\* subtraction of a guard of bounded size never wraps.
FrequencyConflict(a, guardA, b, guardB) ==
  /\ a.low - guardA < b.high
  /\ b.low - guardB < a.high

\* The guard band applied between two claims: the larger of the two.
GuardBetween(a, b) == IF b.guard > a.guard THEN b.guard ELSE a.guard

\* What the allocator refuses: both sides carry the larger guard band, plus
\* the guard of the exclusion domain when the claims meet through one.
Clash(a, b, extra) ==
  FrequencyConflict(a, GuardBetween(a, b) + extra, b, GuardBetween(a, b) + extra)

ShareDomain(a, b) == a.domains \cap b.domains # {}

\* reservationsConflict: what the loader refuses. Each claim carries only its
\* own guard band, and exclusion domains play no part.
ReservationsConflict(a, b) ==
  ShareDomain(a, b) /\ FrequencyConflict(a, a.guard, b, b.guard)
=============================================================================
