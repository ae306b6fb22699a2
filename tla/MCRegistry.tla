----------------------------- MODULE MCRegistry -----------------------------
EXTENDS Registry

\* A grid that is re-registered with fewer slots, a domain that may follow, and
\* a grid too many.
MCGridDef ==
  {[id |-> "g", generation |-> 1, slots |-> 2], [id |-> "g", generation |-> 2, slots |-> 1],
   [id |-> "h", generation |-> 1, slots |-> 2]}

DomainAt(d, generation, gridGeneration, span) ==
  [id |-> d, generation |-> generation, grid |-> "g",
   gridGeneration |-> gridGeneration, span |-> span]

MCDomainDef ==
  {DomainAt(1, 1, 1, NoSpan), DomainAt(1, 1, 2, NoSpan),
   DomainAt(1, 2, 2, NoSpan), DomainAt(2, 1, 1, "s")}

\* Two exclusion domains that compete for the one place domain 2 has.
MCExclusionDef ==
  {[id |-> "x", generation |-> 1, members |-> {1}],
   [id |-> "x", generation |-> 2, members |-> {2}],
   [id |-> "y", generation |-> 1, members |-> {2}]}

MCCapabilityDef ==
  {[domain |-> 1, domainGeneration |-> 1, grid |-> "g", gridGeneration |-> 1,
    generation |-> 1, slots |-> 2]}
=============================================================================
