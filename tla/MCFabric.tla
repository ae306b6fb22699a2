------------------------------ MODULE MCFabric ------------------------------
EXTENDS Fabric

\* Two domains and a grid of two slots: requests 1 and 2 compete for them.
MCDomain == {1, 2}

Ask(id, generation, domains, width, guard, duration, cap) ==
  [id |-> id, generation |-> generation, domains |-> domains, width |-> width,
   guard |-> guard, notBefore |-> 0, duration |-> duration, maxRenewals |-> cap]

\* A request, its newer generation on other domains, and a rival.
MCRequest ==
  {Ask(1, 1, {1}, 1, 0, 1, 1), Ask(1, 2, {1, 2}, 1, 1, 2, 1),
   Ask(2, 1, {1, 2}, 2, 0, 1, 1)}

MCExclusion == {}

\* Two domains that must not carry neighbouring channels at the same time, so
\* that on three slots requests 1 and 2 only fit at the two ends.
PairedExclusion == {[members |-> {1, 2}, guard |-> 1]}

PairedRequest ==
  {Ask(1, 1, {1}, 1, 0, 1, 0), Ask(1, 2, {1}, 1, 0, 2, 0),
   [Ask(2, 1, {2}, 1, 0, 1, 0) EXCEPT !.notBefore = 2]}

\* The same two domains with a request that spans them, so that requests of the
\* two identities also compete inside a domain. One lease starts in the future.
RivalRequest ==
  {Ask(1, 1, {1}, 1, 0, 1, 1), [Ask(2, 1, {2}, 1, 0, 1, 1) EXCEPT !.notBefore = 2],
   Ask(2, 2, {1, 2}, 2, 0, 1, 1)}
=============================================================================
