-------------------------- MODULE SpectrumOwnership --------------------------
(***************************************************************************)
(* What the runtime promises its callers about spectrum, with no table, no *)
(* index, no image and no process: a set of claims, each on a frequency    *)
(* range of some domains until some instant. A claim is granted only clear *)
(* of every claim that stands, may replace one claim it supersedes, may be *)
(* prolonged while it stands, and stops standing once it is returned or    *)
(* its instant has come. Crashes are not visible at this level.            *)
(*                                                                         *)
(* A word of a holder is taken at the instant it bears, up to Lag before   *)
(* the present one. So a claim that has passed may still be prolonged, and *)
(* stand again, by a word from before its end: nobody asks then to whom    *)
(* its spectrum was granted in the meantime. With Lag = 0 what has passed  *)
(* has passed for good.                                                    *)
(***************************************************************************)
EXTENDS Integers, Spectrum

CONSTANTS Domain, Lag

VARIABLES
  clock,
  claims,  \* the claims that stand
  passed   \* claims whose instant has come, as far as they are remembered

ownershipVars == <<clock, claims, passed>>

Compatible(a, b) == ShareDomain(a, b) => ~Clash(a, b, 0)

Claim ==
  [id : Nat, domains : SUBSET Domain, low : Nat, high : Nat, guard : Nat, until : Nat]

\* The instant of c has come, and a word from before it may be on its way.
Late(c) == c.until <= clock /\ c.until + Lag > clock

\* What has passed may be forgotten at any time.
Remember(new) == passed' \subseteq passed \cup new

Free(c) == \A b \in claims : b.id # c.id /\ Compatible(c, b)

Longer(d, c) == d = [c EXCEPT !.until = d.until] /\ d.until > c.until

Init == clock = 1 /\ claims = {} /\ passed = {}

\* One new claim, compatible with all that stood before it, in place of at
\* most one other.
Grant ==
  /\ UNCHANGED clock
  /\ \E c \in (claims' \ claims) \cap Claim :
       /\ c.until > clock /\ Free(c)
       /\ \/ claims' = claims \cup {c}
          \/ \E given \in claims : claims' = (claims \ {given}) \cup {c}
  /\ Remember({})

\* The same by a word so late that the new claim has already passed.
GrantLate ==
  /\ UNCHANGED clock
  /\ \E c \in (passed' \ passed) \cap Claim :
       /\ Late(c) /\ Free(c)
       /\ \/ claims' = claims
          \/ \E given \in claims : claims' = claims \ {given}
       /\ Remember({c})

Prolong ==
  /\ UNCHANGED clock
  /\ \E c \in claims, d \in (claims' \ claims) \cap Claim :
       Longer(d, c) /\ claims' = (claims \ {c}) \cup {d}
  /\ Remember({})

\* A late word prolongs a claim that has passed: it stands again, whatever was
\* granted since.
Revive ==
  /\ UNCHANGED clock
  /\ \E c \in passed, d \in (claims' \ claims) \cap Claim :
       /\ Late(c) /\ Longer(d, c)
       /\ \A b \in claims : b.id # d.id
       /\ claims' = claims \cup {d}
  /\ Remember({})

\* It is prolonged, though not up to the present.
ProlongLate ==
  /\ UNCHANGED <<clock, claims>>
  /\ \E c \in passed, d \in (passed' \ passed) \cap Claim :
       Late(c) /\ Longer(d, c) /\ d.until <= clock /\ Remember({d})

Return ==
  /\ UNCHANGED clock
  /\ \E c \in claims : claims' = claims \ {c}
  /\ Remember({})

Forget == UNCHANGED <<clock, claims>> /\ Remember({})

\* Claims whose instant has come stop standing as time passes.
Pass ==
  /\ clock' = clock + 1
  /\ claims' = {c \in claims : c.until > clock'}
  /\ Remember(claims \ claims')

Next ==
  \/ Grant \/ GrantLate
  \/ Prolong \/ Revive \/ ProlongLate
  \/ Return \/ Forget \/ Pass

Spec == Init /\ [][Next]_ownershipVars

\* No two claims that stand have one name, or clash on a domain they share.
Exclusive == \A a, b \in claims : a # b => a.id # b.id /\ Compatible(a, b)
=============================================================================
