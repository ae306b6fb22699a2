---------------------------- MODULE MCCandidates ----------------------------
EXTENDS Candidates

\* Four slots of width 2 beside three of width 3: their edges meet only at
\* every sixth frequency.
Narrow == [anchor |-> 2, width |-> 2, count |-> 4, minSlots |-> 1, maxSlots |-> 3]
Wide == [anchor |-> 2, width |-> 3, count |-> 3, minSlots |-> 1, maxSlots |-> 2]

MCDomain == {1, 2, 3}
MCGrid == {Narrow, Wide}
MCGridOf == [d \in MCDomain |-> IF d = 3 THEN Wide ELSE Narrow]
MCFragmented == {2}
MCExclusion == {[members |-> {1, 2}, guard |-> 1]}

Band(low, high) == [low |-> low, high |-> high]

Supported(first, count, low, high) ==
  [support |-> "Supported", window |-> [first |-> first, count |-> count],
   tunable |-> Band(low, high), contiguityEnforced |-> TRUE, conversion |-> TRUE]

MCPublication ==
  {Supported(0, 4, 2, 10), Supported(0, 3, 2, 11), Supported(1, 2, 3, 11),
   [Supported(0, 0, 0, 0) EXCEPT !.support = "Unsupported"]}

\* The lower half of the grid for one domain, the upper half for another.
SplitPublication == {Supported(0, 2, 2, 10), Supported(2, 2, 2, 10)}

Ask(domains, grid, slots, guard) ==
  [domains |-> domains, grid |-> grid, slots |-> slots, guard |-> guard,
   fragments |-> FALSE, windows |-> {}, excludedSlots |-> {},
   excludedFrequencies |-> {}, apart |-> {}]

MCRequest ==
  {Ask({1}, Narrow, 1, 1),
   [Ask({1, 2}, Narrow, 2, 0) EXCEPT !.fragments = TRUE],
   [Ask({2}, Narrow, 1, 0) EXCEPT !.windows = {Band(2, 6), Band(6, 9)},
                                  !.excludedSlots = {[first |-> 0, count |-> 2]}],
   Ask({1, 3}, Narrow, 3, 0),
   [Ask({3}, Wide, 2, 0) EXCEPT !.excludedFrequencies = {Band(2, 3)}],
   Ask({3}, Wide, 1, 2),
   [Ask({2}, Narrow, 1, 3) EXCEPT !.apart = {1}],
   [Ask({3}, Wide, 1, 0) EXCEPT !.excludedSlots = {[first |-> 1, count |-> 0]}]}

SplitRequest == {Ask({1, 2}, Narrow, 1, 0)}
=============================================================================
