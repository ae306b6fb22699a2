--------------------------- MODULE RegistryProofs ---------------------------
(***************************************************************************)
(* Registry proved for every registry, every set of definitions and every  *)
(* bound: what a generation stands for never changes under a reservation,  *)
(* exclusion domains are enforced whole, and stale authority stays stale.  *)
(***************************************************************************)
EXTENDS Registry, FiniteSetTheorems, TLAPS

\* What Stored keeps of a definition.
LEMMA StoredGrid ==
  ASSUME NEW def \in GridDef
  PROVE  /\ def.id \in Grid
         /\ def.generation \in Nat
         /\ Stored(def).generation = def.generation
BY RegistryAssumption DEF Stored, GridType

LEMMA StoredDomain ==
  ASSUME NEW def \in DomainDef
  PROVE  /\ def.id \in Domain
         /\ def.generation \in Nat
         /\ Stored(def).generation = def.generation
BY RegistryAssumption DEF Stored, DomainType

LEMMA StoredExclusion ==
  ASSUME NEW def \in ExclusionDef
  PROVE  /\ def.id \in Exclusion
         /\ Stored(def).members = def.members
         /\ def.members \subseteq Domain
BY RegistryAssumption DEF Stored, ExclusionType

-----------------------------------------------------------------------------
(* What generations identify                                               *)

\* A reservation never names a generation the registry has not reached, and
\* one the registry is at means what it meant when the reservation was granted.
Identified(gs, ds, r) ==
  /\ r.domain \in Domain /\ r.grid \in Grid
  /\ r.domainGeneration \in Nat /\ r.gridGeneration \in Nat
  /\ r.domainGeneration <= ds[r.domain].generation
  /\ ds[r.domain].generation = r.domainGeneration => ds[r.domain] = r.home
  /\ r.gridGeneration <= gs[r.grid].generation
  /\ gs[r.grid].generation = r.gridGeneration => gs[r.grid].slots = r.slots

Sound(gs, ds, xs, references) ==
  /\ DOMAIN gs = Grid /\ \A g \in Grid : gs[g].generation \in Nat
  /\ DOMAIN ds = Domain /\ \A d \in Domain : ds[d].generation \in Nat
  /\ DOMAIN xs = Exclusion
  /\ \A r \in references : Identified(gs, ds, r)

\* Both the registry and whatever it may be recovered from are sound.
RegistryInv ==
  /\ Sound(grids, domains, exclusions, reservations)
  /\ authority \in [Kind -> Nat]
  /\ \A image \in disk :
       /\ Sound(image.grids, image.domains, image.exclusions, image.reservations)
       /\ image.authority \in [Kind -> Nat]

LEMMA InitRegistry == Init => RegistryInv
BY DEF Init, RegistryInv, Sound, NoGrid, NoDomain

\* What is written is what is in memory.
LEMMA Written ==
  ASSUME NEW references, NEW image \in {ImageWith(references)}
  PROVE  /\ image.grids = grids /\ image.domains = domains
         /\ image.exclusions = exclusions /\ image.reservations = references
         /\ image.authority = authority
BY DEF ImageWith

\* A grid only moves to a generation no reservation names yet.
LEMMA RegisterGridSound ==
  ASSUME RegistryInv, NEW def \in GridDef, RegisterGrid(def)
  PROVE  RegistryInv'
<1>1. /\ grids' = [grids EXCEPT ![def.id] = Stored(def)]
      /\ def.generation > grids[def.id].generation
      /\ UNCHANGED <<domains, exclusions, reservations, authority, disk>>
  BY DEF RegisterGrid, Advances, control
<1>2. DOMAIN grids' = Grid /\ \A g \in Grid : grids'[g].generation \in Nat
  BY <1>1, StoredGrid DEF RegistryInv, Sound
<1>3. ASSUME NEW r \in reservations PROVE Identified(grids', domains, r)
  BY <1>1, StoredGrid DEF RegistryInv, Sound, Identified
<1> QED
  BY <1>1, <1>2, <1>3 DEF RegistryInv, Sound

LEMMA RegisterDomainSound ==
  ASSUME RegistryInv, NEW def \in DomainDef, RegisterDomain(def)
  PROVE  RegistryInv'
<1>1. /\ domains' = [domains EXCEPT ![def.id] = Stored(def)]
      /\ def.generation > domains[def.id].generation
      /\ UNCHANGED <<grids, exclusions, reservations, authority, disk>>
  BY DEF RegisterDomain, Advances, control
<1>2. DOMAIN domains' = Domain /\ \A d \in Domain : domains'[d].generation \in Nat
  BY <1>1, StoredDomain DEF RegistryInv, Sound
<1>3. ASSUME NEW r \in reservations PROVE Identified(grids, domains', r)
  BY <1>1, StoredDomain DEF RegistryInv, Sound, Identified
<1> QED
  BY <1>1, <1>2, <1>3 DEF RegistryInv, Sound

\* What allocate adds names what is registered at that moment.
LEMMA AllocateSound ==
  ASSUME RegistryInv, NEW ds \in (SUBSET Domain) \ {{}}, NEW g \in Grid,
         Allocate(minted, ds, g)
  PROVE  RegistryInv'
<1>1. /\ reservations' = reservations \cup {Reference(d, g) : d \in ds}
      /\ disk' = {ImageWith(reservations')}
      /\ UNCHANGED <<grids, domains, exclusions, authority>>
  BY DEF Allocate, registry, control
<1>2. ASSUME NEW d \in ds PROVE Identified(grids, domains, Reference(d, g))
  BY DEF RegistryInv, Sound, Identified, Reference
<1>3. Sound(grids, domains, exclusions, reservations')
  BY <1>1, <1>2 DEF RegistryInv, Sound
<1>4. ASSUME NEW image \in disk'
      PROVE  /\ Sound(image.grids, image.domains, image.exclusions, image.reservations)
             /\ image.authority \in [Kind -> Nat]
  BY <1>1, <1>3, Written DEF RegistryInv
<1> QED
  BY <1>1, <1>3, <1>4 DEF RegistryInv

LEMMA NextRegistry == RegistryInv /\ [Next]_vars => RegistryInv'
<1> SUFFICES ASSUME RegistryInv, [Next]_vars
             PROVE  RegistryInv'
  OBVIOUS
<1>1. CASE UNCHANGED <<grids, domains, exclusions, reservations, authority, disk>>
  BY <1>1 DEF RegistryInv
<1>2. CASE Register
  <2>1. ASSUME NEW a \in Span \cup Port, NEW generation, RegisterAnchor(a, generation)
        PROVE  RegistryInv'
    BY <1>1, <2>1 DEF RegisterAnchor, control
  <2>2. ASSUME NEW def \in ExclusionDef, RegisterExclusionDomain(def)
        PROVE  RegistryInv'
    <3>1. /\ UNCHANGED <<grids, domains, reservations, authority, disk>>
          /\ DOMAIN exclusions' = DOMAIN exclusions
      BY <2>2 DEF RegisterExclusionDomain, control
    <3> QED
      BY <3>1 DEF RegistryInv, Sound
  <2> QED
    BY <1>2, <2>1, <2>2, RegisterGridSound, RegisterDomainSound DEF Register
<1>3. CASE Authorised
  <2>1. ASSUME NEW token, NEW next \in [Kind -> 1..MaxAuthority],
               AdvanceAuthority(token, next)
        PROVE  RegistryInv'
    <3>1. next \in [Kind -> Nat]
      BY RegistryAssumption
    <3> QED
      BY <2>1, <3>1 DEF AdvanceAuthority, registry, RegistryInv
  <2>2. ASSUME NEW token, NEW def, PublishCapability(token, def)
        PROVE  RegistryInv'
    BY <1>1, <2>2 DEF PublishCapability, control
  <2> QED
    BY <1>3, <2>1, <2>2, AllocateSound DEF Authorised
<1>4. CASE Save
  BY <1>4, Written DEF Save, registry, control, RegistryInv, Image
<1>5. CASE Recover
  BY <1>5 DEF Recover, Restored, Boot, RegistryInv
<1>6. CASE StartAfresh \/ Reset
  <2>1. Sound(grids, domains, exclusions, reservations)' /\ UNCHANGED disk
    BY <1>6 DEF StartAfresh, Reset, Cleared, Sound, NoGrid, NoDomain
  <2>2. authority' \in [Kind -> Nat]
    BY <1>6 DEF StartAfresh, Reset, Boot, control, RegistryInv
  <2> QED
    BY <2>1, <2>2 DEF RegistryInv
<1>7. CASE UNCHANGED vars
  BY <1>1, <1>7 DEF vars, registry, control
<1> QED
  BY <1>2, <1>3, <1>4, <1>5, <1>6, <1>7 DEF Next

LEMMA InvRegistry == Spec => []RegistryInv
BY InitRegistry, NextRegistry, PTL DEF Spec

\* As long as the registry is at the generations a reservation names, they are
\* the definitions it was granted under (registerGrid, registerDomain, allocate,
\* and recover, which may take the registry back).
THEOREM GenerationsMean == Spec => []GenerationsIdentify
<1>1. RegistryInv => GenerationsIdentify
  BY DEF RegistryInv, Sound, Identified, GenerationsIdentify
<1> QED
  BY <1>1, InvRegistry, PTL

-----------------------------------------------------------------------------
(* Exclusion domains                                                       *)

\* The domains whose index lists an exclusion domain.
ListedAt(index, x) == {d \in Domain : x \in index[d]}

Whole(index, x) == ListedAt(index, x) = {} \/ ListedAt(index, x) = exclusions[x].members

ExclusionInv == RecoverInPlace \/ \A x \in Exclusion : Whole(domainExclusions, x)

LEMMA InitExclusion == Init => ExclusionInv
BY DEF Init, ExclusionInv, Whole, ListedAt

\* The one operation that has an argument: it takes the old membership out of
\* an index that lists all of it or none, and puts the new one in whole.
LEMMA RegisterKeepsWhole ==
  ASSUME RegistryInv, ~RecoverInPlace, ExclusionInv, NEW def \in ExclusionDef,
         RegisterExclusionDomain(def)
  PROVE  ExclusionInv'
<1> DEFINE index == WithoutExclusion(def.id)
<1>1. ListedAt(index, def.id) = {}
  BY StoredExclusion DEF ExclusionInv, Whole, ListedAt, WithoutExclusion
<1>2. ASSUME NEW x \in Exclusion, x # def.id
      PROVE  ListedAt(index, x) = ListedAt(domainExclusions, x)
  BY <1>2 DEF ListedAt, WithoutExclusion
<1>3. CASE UNCHANGED exclusions /\ domainExclusions' = index
  BY <1>1, <1>2, <1>3 DEF ExclusionInv, Whole
<1>4. CASE /\ exclusions' = [exclusions EXCEPT ![def.id] = Stored(def)]
           /\ domainExclusions' = [d \in Domain |-> IF d \in def.members
                                                      THEN index[d] \cup {def.id}
                                                      ELSE index[d]]
  <2>1. ListedAt(domainExclusions', def.id) = def.members
    BY <1>1, <1>4, StoredExclusion DEF ListedAt
  <2>2. ASSUME NEW x \in Exclusion, x # def.id
        PROVE  ListedAt(domainExclusions', x) = ListedAt(domainExclusions, x)
    BY <1>2, <1>4, <2>2 DEF ListedAt
  <2>3. exclusions'[def.id].members = def.members
    BY <1>4, StoredExclusion DEF RegistryInv, Sound
  <2>4. Whole(domainExclusions, def.id)'
    BY <2>1, <2>3 DEF Whole, ListedAt
  <2>5. ASSUME NEW x \in Exclusion, x # def.id PROVE Whole(domainExclusions, x)'
    <3>1. exclusions'[x] = exclusions[x]
      BY <1>4, <2>5 DEF RegistryInv, Sound
    <3>2. Whole(domainExclusions, x)
      BY DEF ExclusionInv
    <3> QED
      BY <2>2, <2>5, <3>1, <3>2 DEF Whole, ListedAt
  <2> QED
    BY <2>4, <2>5 DEF ExclusionInv
<1> QED
  BY <1>3, <1>4 DEF RegisterExclusionDomain

LEMMA NextExclusion == RegistryInv /\ ExclusionInv /\ [Next]_vars => ExclusionInv'
<1> SUFFICES ASSUME RegistryInv, ~RecoverInPlace, ExclusionInv, [Next]_vars
             PROVE  ExclusionInv'
  BY DEF ExclusionInv
<1>1. CASE UNCHANGED <<exclusions, domainExclusions>>
  BY <1>1 DEF ExclusionInv, Whole, ListedAt
<1>2. CASE Register
  <2>1. ASSUME NEW def \in GridDef, RegisterGrid(def)
        PROVE  ExclusionInv'
    BY <1>1, <2>1 DEF RegisterGrid
  <2>2. ASSUME NEW a \in Span \cup Port, NEW generation, RegisterAnchor(a, generation)
        PROVE  ExclusionInv'
    BY <1>1, <2>2 DEF RegisterAnchor
  <2>3. ASSUME NEW def \in DomainDef, RegisterDomain(def)
        PROVE  ExclusionInv'
    BY <1>1, <2>3 DEF RegisterDomain
  <2> QED
    BY <1>2, <2>1, <2>2, <2>3, RegisterKeepsWhole DEF Register
<1>3. CASE Authorised
  BY <1>1, <1>3 DEF Authorised, AdvanceAuthority, PublishCapability, Allocate, registry
<1>4. CASE Save
  BY <1>1, <1>4 DEF Save, registry
<1>5. CASE Recover
  <2>1. domainExclusions' = [d \in Domain |-> {}]
    BY <1>5 DEF Recover, Restored, IndexAfterRecovery
  <2> QED
    BY <2>1 DEF ExclusionInv, Whole, ListedAt
<1>6. CASE StartAfresh \/ Reset
  BY <1>6 DEF StartAfresh, Reset, Cleared, ExclusionInv, Whole, ListedAt
<1>7. CASE UNCHANGED vars
  BY <1>1, <1>7 DEF vars, registry
<1> QED
  BY <1>2, <1>3, <1>4, <1>5, <1>6, <1>7 DEF Next

\* No registration, refused half way or not, and no recovery of a new process
\* leaves an exclusion domain enforced between some of its members only
\* (registerExclusionDomain, rebuildIndices).
THEOREM ExclusionsWhole == Spec => []EnforcedThroughoutOrNowhere
<1>1. ExclusionInv => EnforcedThroughoutOrNowhere
  BY DEF ExclusionInv, EnforcedThroughoutOrNowhere, Whole, ListedAt
<1> QED
  BY <1>1, InvRegistry, InitExclusion, NextExclusion, PTL DEF Spec

-----------------------------------------------------------------------------
(* Authority                                                               *)

\* Every token that was ever in force is of an incarnation minted by now; one
\* of this incarnation carries this fence and no later generation.
AuthorityInv ==
  /\ boots \in Nat
  /\ fence.incarnation = boots
  /\ \A token \in minted :
       /\ token.kind \in Kind /\ token.generation \in Nat
       /\ token.fence.incarnation \in Nat /\ token.fence.incarnation <= boots
       /\ token.fence.incarnation = boots =>
            token.fence = fence /\ token.generation <= authority[token.kind]

\* What is minted in the next state.
LEMMA Minted ==
  ASSUME NEW token \in Tokens'
  PROVE  /\ token.kind \in Kind /\ token.generation = authority'[token.kind]
         /\ token.fence = fence'
BY DEF Tokens, Token

LEMMA InitAuthority == Init => AuthorityInv
BY DEF Init, AuthorityInv, Tokens, Token

LEMMA AdvanceKeepsAuthority ==
  ASSUME RegistryInv, AuthorityInv, NEW token, NEW next \in [Kind -> 1..MaxAuthority],
         AdvanceAuthority(token, next)
  PROVE  /\ AuthorityInv'
         /\ \A t \in minted : ~InForce(t) => ~InForce(t)'
<1>1. /\ \A k \in Kind : next[k] >= authority[k]
      /\ authority' = next /\ UNCHANGED <<fence, boots>>
      /\ minted' = minted \cup Tokens'
  BY DEF AdvanceAuthority, MovesForward
<1>2. \A k \in Kind : authority[k] \in Nat /\ next[k] \in Nat
  BY RegistryAssumption DEF RegistryInv
<1>3. ASSUME NEW t \in minted'
      PROVE  /\ t.kind \in Kind /\ t.generation \in Nat
             /\ t.fence.incarnation \in Nat /\ t.fence.incarnation <= boots'
             /\ t.fence.incarnation = boots' =>
                  t.fence = fence' /\ t.generation <= authority'[t.kind]
  <2>1. CASE t \in minted
    BY <1>1, <1>2, <2>1 DEF AuthorityInv
  <2>2. CASE t \in Tokens'
    BY <1>1, <1>2, <2>2, Minted DEF AuthorityInv
  <2> QED
    BY <1>1, <2>1, <2>2
<1>4. ASSUME NEW t \in minted, ~InForce(t), InForce(t)' PROVE FALSE
  <2>1. t.fence = fence /\ t.generation = next[t.kind]
    BY <1>1, <1>4 DEF InForce, FenceCurrent
  <2>2. t.generation <= authority[t.kind] /\ t.generation # authority[t.kind]
    BY <1>4, <2>1 DEF AuthorityInv, InForce, FenceCurrent
  <2> QED
    BY <1>1, <1>2, <2>1, <2>2 DEF AuthorityInv
<1> QED
  BY <1>1, <1>3, <1>4 DEF AuthorityInv

\* A new incarnation is one no token carries.
LEMMA BootKeepsAuthority ==
  ASSUME AuthorityInv, NEW epoch, NEW generations \in [Kind -> Nat],
         Boot(epoch, boots + 1, generations)
  PROVE  /\ AuthorityInv'
         /\ \A t \in minted : ~InForce(t)'
<1>1. /\ boots' = boots + 1 /\ authority' = generations
      /\ fence' = [epoch |-> epoch, incarnation |-> boots + 1]
      /\ minted' = minted \cup Tokens'
  BY DEF Boot
<1>2. ASSUME NEW t \in minted'
      PROVE  /\ t.kind \in Kind /\ t.generation \in Nat
             /\ t.fence.incarnation \in Nat /\ t.fence.incarnation <= boots'
             /\ t.fence.incarnation = boots' =>
                  t.fence = fence' /\ t.generation <= authority'[t.kind]
  <2>1. CASE t \in minted
    BY <1>1, <2>1 DEF AuthorityInv
  <2>2. CASE t \in Tokens'
    BY <1>1, <2>2, Minted DEF AuthorityInv
  <2> QED
    BY <1>1, <2>1, <2>2
<1>3. ASSUME NEW t \in minted, InForce(t)' PROVE FALSE
  <2>1. t.fence.incarnation = boots + 1
    BY <1>1, <1>3 DEF InForce, FenceCurrent
  <2> QED
    BY <2>1 DEF AuthorityInv
<1> QED
  BY <1>1, <1>2, <1>3 DEF AuthorityInv

LEMMA NextAuthority ==
  ASSUME RegistryInv, AuthorityInv, [Next]_vars
  PROVE  /\ AuthorityInv'
         /\ \A t \in minted : ~InForce(t) => ~InForce(t)'
<1>1. CASE UNCHANGED <<authority, fence, boots, minted>>
  BY <1>1 DEF AuthorityInv, InForce, FenceCurrent
<1>2. CASE Register
  BY <1>1, <1>2 DEF Register, RegisterGrid, RegisterAnchor, RegisterDomain,
                    RegisterExclusionDomain, control
<1>3. CASE Authorised
  <2>1. ASSUME NEW token, NEW def, PublishCapability(token, def)
        PROVE  UNCHANGED <<authority, fence, boots, minted>>
    BY <2>1 DEF PublishCapability, control
  <2>2. ASSUME NEW ds, NEW g, Allocate(minted, ds, g)
        PROVE  UNCHANGED <<authority, fence, boots, minted>>
    BY <2>2 DEF Allocate, control
  <2> QED
    BY <1>1, <1>3, <2>1, <2>2, AdvanceKeepsAuthority DEF Authorised
<1>4. CASE Save \/ Reset
  BY <1>1, <1>4 DEF Save, Reset, control
<1>5. CASE Recover
  BY <1>5, BootKeepsAuthority DEF Recover, Restored, FreshIncarnation, RegistryInv
<1>6. CASE StartAfresh
  BY <1>6, BootKeepsAuthority DEF StartAfresh
<1>7. CASE UNCHANGED vars
  BY <1>1, <1>7 DEF vars, control
<1> QED
  BY <1>2, <1>3, <1>4, <1>5, <1>6, <1>7 DEF Next

\* A token once superseded, or of a dead incarnation, is never in force again
\* (advanceAuthority, the checks of authority and the fence minted by recover),
\* whatever was or was not saved in between.
THEOREM AuthorityNeverReturns == Spec => StaleAuthorityStaysStale
<1>1. AuthorityInv /\ RegistryInv /\ [Next]_vars =>
        [\A token \in minted : ~InForce(token) => ~InForce(token)']_vars
  BY NextAuthority
<1>2. Spec => []AuthorityInv
  <2>1. AuthorityInv /\ RegistryInv /\ [Next]_vars => AuthorityInv'
    BY NextAuthority
  <2> QED
    BY <2>1, InitAuthority, InvRegistry, PTL DEF Spec
<1> QED
  BY <1>1, <1>2, InvRegistry, PTL DEF Spec, StaleAuthorityStaysStale

-----------------------------------------------------------------------------
(* Images that can be loaded                                               *)

\* What Stored keeps of the definition of a domain.
LEMMA StoredDomainLinks ==
  ASSUME NEW def \in DomainDef
  PROVE  /\ def.generation # 0 /\ def.span \in Span \cup {NoSpan}
         /\ Stored(def).span = def.span /\ Stored(def).grid = def.grid
         /\ Stored(def).gridGeneration = def.gridGeneration
BY RegistryAssumption DEF Stored, DomainType

\* What Stored keeps of a publication.
LEMMA StoredCapability ==
  ASSUME NEW def \in CapabilityDef
  PROVE  /\ def.domain \in Domain /\ def.domainGeneration \in Nat \ {0}
         /\ Stored(def).domainGeneration = def.domainGeneration
         /\ Stored(def).grid = def.grid
         /\ Stored(def).gridGeneration = def.gridGeneration
BY RegistryAssumption DEF Stored, CapabilityType

\* The publication c was for a generation of its domain that was registered, and
\* agrees with the domain e as long as that is the generation it was for.
Agrees(c, e) ==
  c.generation # 0 =>
    /\ c.domainGeneration \in Nat \ {0}
    /\ c.domainGeneration <= e.generation
    /\ c.domainGeneration = e.generation =>
         c.grid = e.grid /\ c.gridGeneration = e.gridGeneration

\* What is registered refers to what is registered: a domain to a span, an
\* exclusion domain to domains, a publication to a domain.
Linked(as, ds, xs, cs) ==
  /\ DOMAIN as = Span \cup Port /\ DOMAIN cs = Domain
  /\ \A a \in Span \cup Port : as[a] \in Nat
  /\ \A d \in Domain : ds[d].generation # 0 /\ ds[d].span # NoSpan =>
       ds[d].span \in Span /\ as[ds[d].span] # 0
  /\ \A x \in Exclusion : xs[x].generation # 0 =>
       \A d \in xs[x].members : d \in Domain /\ ds[d].generation # 0
  /\ \A d \in Domain : Agrees(cs[d], ds[d])

\* It is so in memory and in the image, from which memory may come back.
LinkedInv ==
  /\ Linked(anchors, domains, exclusions, capabilities)
  /\ \A image \in disk :
       Linked(image.anchors, image.domains, image.exclusions, image.capabilities)

\* Nothing is registered at first.
LEMMA InitLinked == Init => LinkedInv
BY DEF Init, LinkedInv, Linked, Agrees, NoDomain, NoExclusion, NoCapability

\* A span or a port only moves to a generation that is set.
LEMMA AnchorLinked ==
  ASSUME LinkedInv, NEW a \in Span \cup Port, NEW generation \in 1..MaxAnchor,
         RegisterAnchor(a, generation)
  PROVE  LinkedInv'
<1>1. /\ anchors' = [anchors EXCEPT ![a] = generation]
      /\ UNCHANGED <<domains, exclusions, capabilities, disk>>
      /\ generation \in Nat \ {0}
  BY RegistryAssumption DEF RegisterAnchor
<1>2. /\ DOMAIN anchors' = Span \cup Port
      /\ \A b \in Span \cup Port : /\ anchors'[b] \in Nat
                                   /\ anchors[b] # 0 => anchors'[b] # 0
  BY <1>1 DEF LinkedInv, Linked
<1> QED
  BY <1>1, <1>2 DEF LinkedInv, Linked

\* A domain needs its span, and leaves publications of its older generations
\* behind.
LEMMA DomainLinked ==
  ASSUME RegistryInv, LinkedInv, NEW def \in DomainDef, RegisterDomain(def)
  PROVE  LinkedInv'
<1>1. /\ domains' = [domains EXCEPT ![def.id] = Stored(def)]
      /\ def.generation > domains[def.id].generation
      /\ def.span # NoSpan => anchors[def.span] # 0
      /\ UNCHANGED <<anchors, exclusions, capabilities, disk>>
  BY DEF RegisterDomain, Advances
<1>2. DOMAIN domains = Domain /\ \A d \in Domain : domains[d].generation \in Nat
  BY DEF RegistryInv, Sound
<1>3. /\ domains'[def.id].generation = def.generation /\ def.generation \in Nat \ {0}
      /\ domains'[def.id].span = def.span
  BY <1>1, <1>2, StoredDomain, StoredDomainLinks
<1>4. \A d \in Domain : d = def.id \/ domains'[d] = domains[d]
  BY <1>1, <1>2
<1>5. \A d \in Domain : domains[d].generation # 0 => domains'[d].generation # 0
  BY <1>3, <1>4
<1>6. ASSUME NEW d \in Domain, domains'[d].generation # 0, domains'[d].span # NoSpan
      PROVE  domains'[d].span \in Span /\ anchors[domains'[d].span] # 0
  <2>1. CASE d = def.id
    BY <1>1, <1>3, <1>6, <2>1, StoredDomainLinks
  <2>2. CASE d # def.id
    BY <1>4, <1>6, <2>2 DEF LinkedInv, Linked
  <2> QED
    BY <2>1, <2>2
<1>7. ASSUME NEW d \in Domain
      PROVE  Agrees(capabilities[d], domains'[d])
  <2>1. Agrees(capabilities[d], domains[d])
    BY DEF LinkedInv, Linked
  <2>2. CASE d = def.id
    BY <1>1, <1>2, <1>3, <2>1, <2>2, StoredDomain DEF Agrees
  <2>3. CASE d # def.id
    BY <1>4, <2>1, <2>3
  <2> QED
    BY <2>2, <2>3
<1> QED
  BY <1>1, <1>5, <1>6, <1>7 DEF LinkedInv, Linked

\* An exclusion domain has registered members.
LEMMA ExclusionLinked ==
  ASSUME RegistryInv, LinkedInv, NEW def \in ExclusionDef, RegisterExclusionDomain(def)
  PROVE  LinkedInv'
<1>1. /\ exclusions' \in {exclusions, [exclusions EXCEPT ![def.id] = Stored(def)]}
      /\ \A d \in def.members : domains[d].generation # 0
      /\ UNCHANGED <<anchors, domains, capabilities, disk>>
  BY DEF RegisterExclusionDomain, ExclusionAdmissible
<1>2. DOMAIN exclusions = Exclusion
  BY DEF RegistryInv, Sound
<1>3. \A x \in Exclusion : \/ exclusions'[x] = exclusions[x]
                           \/ exclusions'[x].members = def.members
  BY <1>1, <1>2, StoredExclusion
<1>4. \A x \in Exclusion : exclusions'[x].generation # 0 =>
        \A d \in exclusions'[x].members : d \in Domain /\ domains[d].generation # 0
  BY <1>1, <1>3, StoredExclusion DEF LinkedInv, Linked
<1> QED
  BY <1>1, <1>4 DEF LinkedInv, Linked

\* A publication agrees with its domain when it is made.
LEMMA PublicationLinked ==
  ASSUME RegistryInv, LinkedInv, NEW def \in CapabilityDef, NEW token,
         PublishCapability(token, def)
  PROVE  LinkedInv'
<1>1. /\ capabilities' = [capabilities EXCEPT ![def.domain] = Stored(def)]
      /\ domains[def.domain].generation = def.domainGeneration
      /\ domains[def.domain].grid = def.grid
      /\ domains[def.domain].gridGeneration = def.gridGeneration
      /\ UNCHANGED <<anchors, domains, exclusions, disk>>
  BY DEF PublishCapability, Publishable
<1>2. DOMAIN capabilities = Domain
  BY DEF LinkedInv, Linked
<1>3. ASSUME NEW d \in Domain
      PROVE  Agrees(capabilities'[d], domains[d])
  <2>1. CASE d = def.domain
    <3>1. capabilities'[d] = Stored(def)
      BY <1>1, <1>2, <2>1
    <3> QED
      BY <1>1, <2>1, <3>1, StoredCapability DEF Agrees
  <2>2. CASE d # def.domain
    BY <1>1, <1>2, <2>2 DEF LinkedInv, Linked
  <2> QED
    BY <2>1, <2>2
<1>4. DOMAIN capabilities' = Domain
  BY <1>1, <1>2
<1> QED
  BY <1>1, <1>3, <1>4 DEF LinkedInv, Linked

\* Every step keeps what is registered linked.
LEMMA NextLinked == RegistryInv /\ LinkedInv /\ [Next]_vars => LinkedInv'
<1> SUFFICES ASSUME RegistryInv, LinkedInv, [Next]_vars
             PROVE  LinkedInv'
  OBVIOUS
<1>1. CASE UNCHANGED <<anchors, domains, exclusions, capabilities, disk>>
  BY <1>1 DEF LinkedInv
<1>2. CASE Register
  <2>1. ASSUME NEW def \in GridDef, RegisterGrid(def)
        PROVE  LinkedInv'
    BY <1>1, <2>1 DEF RegisterGrid
  <2> QED
    BY <1>2, <2>1, AnchorLinked, DomainLinked, ExclusionLinked DEF Register
<1>3. CASE Authorised
  <2>1. ASSUME NEW token, NEW next, AdvanceAuthority(token, next)
        PROVE  LinkedInv'
    BY <1>1, <2>1 DEF AdvanceAuthority, registry
  <2>2. ASSUME NEW ds, NEW g, Allocate(minted, ds, g)
        PROVE  LinkedInv'
    <3>1. /\ disk' = {ImageWith(reservations')}
          /\ UNCHANGED <<anchors, domains, exclusions, capabilities>>
      BY <2>2 DEF Allocate, registry
    <3> QED
      BY <3>1 DEF LinkedInv, ImageWith
  <2> QED
    BY <1>3, <2>1, <2>2, PublicationLinked DEF Authorised
<1>4. CASE Save
  BY <1>4 DEF Save, registry, Image, ImageWith, LinkedInv
<1>5. CASE Recover
  BY <1>5 DEF Recover, Restored, LinkedInv
<1>6. CASE StartAfresh \/ Reset
  <2>1. /\ anchors' = [a \in Span \cup Port |-> 0]
        /\ capabilities' = [d \in Domain |-> NoCapability]
        /\ \A d \in Domain : domains'[d].generation = 0 /\ capabilities'[d].generation = 0
        /\ \A x \in Exclusion : exclusions'[x].generation = 0
        /\ disk' = disk
    BY <1>6 DEF StartAfresh, Reset, Cleared, NoDomain, NoExclusion, NoCapability
  <2>2. Linked(anchors, domains, exclusions, capabilities)'
    BY <2>1 DEF Linked, Agrees
  <2> QED
    BY <2>1, <2>2 DEF LinkedInv
<1>7. CASE UNCHANGED vars
  BY <1>1, <1>7 DEF vars, registry
<1> QED
  BY <1>2, <1>3, <1>4, <1>5, <1>6, <1>7 DEF Next

\* An image none of whose references was overtaken is not refused: what
\* decodeState demands of a reference is no more than what registration and
\* publication looked at, whatever was registered, lost or cleared since.
THEOREM CurrentLoads == Spec => []CurrentImageLoads
<1>1. ASSUME RegistryInv, LinkedInv, NEW image \in disk, AllCurrent(image)
      PROVE  Loadable(image)
  <2>1. /\ DOMAIN image.domains = Domain /\ DOMAIN image.exclusions = Exclusion
        /\ Linked(image.anchors, image.domains, image.exclusions, image.capabilities)
    BY <1>1 DEF RegistryInv, Sound, LinkedInv
  <2>2. ASSUME NEW d \in Registered(image.domains)
        PROVE  /\ image.grids[image.domains[d].grid].generation
                    = image.domains[d].gridGeneration
               /\ image.domains[d].span # NoSpan => image.anchors[image.domains[d].span] # 0
    BY <1>1, <2>1 DEF AllCurrent, Registered, Linked
  <2>3. ASSUME NEW x \in Registered(image.exclusions)
        PROVE  image.exclusions[x].members \subseteq Registered(image.domains)
    BY <2>1 DEF Registered, Linked
  <2>4. ASSUME NEW d \in Registered(image.capabilities)
        PROVE  /\ d \in Registered(image.domains)
               /\ image.capabilities[d].grid = image.domains[d].grid
               /\ image.capabilities[d].gridGeneration = image.domains[d].gridGeneration
    <3>1. /\ d \in Domain /\ Agrees(image.capabilities[d], image.domains[d])
          /\ image.capabilities[d].generation # 0
      BY <2>1 DEF Registered, Linked
    <3>2. image.capabilities[d].domainGeneration = image.domains[d].generation
      BY <1>1 DEF AllCurrent
    <3> QED
      BY <2>1, <3>1, <3>2 DEF Agrees, Registered
  <2> QED
    BY <1>1, <2>2, <2>3, <2>4 DEF Loadable, AllCurrent
<1>2. RegistryInv /\ LinkedInv => CurrentImageLoads
  BY <1>1 DEF CurrentImageLoads
<1> QED
  BY <1>2, InvRegistry, InitLinked, NextLinked, PTL DEF Spec

-----------------------------------------------------------------------------
(* Types and bounds                                                        *)

\* What a registry has registered is within its bound.
Bounded(table, bound) ==
  IsFiniteSet(Registered(table)) /\ Cardinality(Registered(table)) <= bound

\* The tables of memory, or of an image, are of their types and within their
\* bounds.
Shaped(gs, as, ds, xs, cs, generations, epoch) ==
  /\ DOMAIN gs = Grid /\ DOMAIN ds = Domain /\ DOMAIN cs = Domain
  /\ as \in [Span \cup Port -> 0..MaxAnchor]
  /\ xs \in [Exclusion -> [generation : Nat, members : SUBSET Domain]]
  /\ generations \in [Kind -> 1..MaxAuthority]
  /\ epoch \in Nat \ {0}
  /\ Bounded(gs, MaxGrids) /\ Bounded(ds, MaxDomains) /\ Bounded(xs, MaxExclusions)

\* The inductive invariant behind TypeOK: a recovery takes every table from the
\* image.
ShapeInv ==
  /\ Shaped(grids, anchors, domains, exclusions, capabilities, authority, fence.epoch)
  /\ \A image \in disk :
       Shaped(image.grids, image.anchors, image.domains, image.exclusions,
              image.capabilities, image.authority, image.epoch)
  /\ domainExclusions \in [Domain -> SUBSET Exclusion]
  /\ fence \in [epoch : Nat \ {0}, incarnation : Nat \ {0}]
  /\ boots \in Nat
  /\ Tokens \subseteq minted
  /\ disk = {} \/ \E image : disk = {image}

\* A table with nothing registered is within every bound.
LEMMA NothingRegistered ==
  ASSUME NEW table, \A k \in DOMAIN table : table[k].generation = 0, NEW bound \in Nat
  PROVE  Bounded(table, bound)
<1>1. Registered(table) = {}
  BY DEF Registered
<1> QED
  BY <1>1, FS_EmptySet DEF Bounded

\* Registering keeps a table within its bound.
LEMMA RoomKeepsBound ==
  ASSUME NEW table, NEW k \in DOMAIN table, NEW entry, NEW bound \in Nat,
         RoomFor(table, k, bound), Bounded(table, bound)
  PROVE  Bounded([table EXCEPT ![k] = entry], bound)
<1> DEFINE before == Registered(table)
           after  == Registered([table EXCEPT ![k] = entry])
<1>1. after \subseteq before \cup {k}
  BY DEF Registered
<1>2. IsFiniteSet(before) /\ Cardinality(before) \in Nat
  BY FS_CardinalityType DEF Bounded
<1>3. /\ IsFiniteSet(before \cup {k})
      /\ Cardinality(before \cup {k}) =
           IF k \in before THEN Cardinality(before) ELSE Cardinality(before) + 1
  <2> HIDE DEF before
  <2> QED
    BY <1>2, FS_AddElement
<1>4. k \in before \/ Cardinality(before) < bound
  BY DEF RoomFor, Registered
<1>5. Cardinality(before \cup {k}) <= bound
  BY <1>2, <1>3, <1>4 DEF Bounded
<1>6. IsFiniteSet(after) /\ Cardinality(after) <= Cardinality(before \cup {k})
  <2> HIDE DEF before, after
  <2> QED
    BY <1>1, <1>3, FS_Subset
<1>7. Cardinality(after) \in Nat /\ Cardinality(before \cup {k}) \in Nat
  BY <1>3, <1>6, FS_CardinalityType
<1> QED
  BY <1>5, <1>6, <1>7 DEF Bounded

\* What Stored keeps of an exclusion domain is the record of one.
LEMMA StoredExclusionType ==
  ASSUME NEW def \in ExclusionDef
  PROVE  Stored(def) \in [generation : Nat, members : SUBSET Domain]
BY RegistryAssumption DEF Stored, ExclusionType

\* The initial state is shaped.
LEMMA InitShape == Init => ShapeInv
<1> SUFFICES ASSUME Init PROVE ShapeInv
  OBVIOUS
<1>1. /\ Bounded(grids, MaxGrids) /\ Bounded(domains, MaxDomains)
      /\ Bounded(exclusions, MaxExclusions)
  BY NothingRegistered, RegistryAssumption DEF Init, NoGrid, NoDomain, NoExclusion
<1> QED
  BY <1>1, RegistryAssumption DEF Init, ShapeInv, Shaped, NoExclusion

\* Every registration keeps the shape.
LEMMA RegisterShape ==
  ASSUME ShapeInv, Register
  PROVE  ShapeInv'
<1> USE DEF ShapeInv, Shaped
<1>0. UNCHANGED <<authority, fence, boots, minted, disk>>
  BY DEF Register, RegisterGrid, RegisterAnchor, RegisterDomain,
         RegisterExclusionDomain, control
<1>1. UNCHANGED Tokens
  BY <1>0 DEF Tokens, Token
<1>2. ASSUME NEW def \in GridDef, RegisterGrid(def)
      PROVE  ShapeInv'
  <2>1. /\ grids' = [grids EXCEPT ![def.id] = Stored(def)]
        /\ RoomFor(grids, def.id, MaxGrids)
        /\ UNCHANGED <<anchors, domains, exclusions, domainExclusions, capabilities>>
    BY <1>2 DEF RegisterGrid
  <2>2. Bounded(grids', MaxGrids)
    BY <2>1, RoomKeepsBound, StoredGrid, RegistryAssumption
  <2> QED
    BY <1>0, <1>1, <2>1, <2>2
<1>3. ASSUME NEW a \in Span \cup Port, NEW generation \in 1..MaxAnchor,
             RegisterAnchor(a, generation)
      PROVE  ShapeInv'
  <2>1. /\ anchors' = [anchors EXCEPT ![a] = generation]
        /\ UNCHANGED <<grids, domains, exclusions, domainExclusions, capabilities>>
    BY <1>3 DEF RegisterAnchor
  <2>2. generation \in 0..MaxAnchor
    BY RegistryAssumption
  <2>3. anchors' \in [Span \cup Port -> 0..MaxAnchor]
    BY <2>1, <2>2
  <2> QED
    BY <1>0, <1>1, <2>1, <2>3
<1>4. ASSUME NEW def \in DomainDef, RegisterDomain(def)
      PROVE  ShapeInv'
  <2>1. /\ domains' = [domains EXCEPT ![def.id] = Stored(def)]
        /\ RoomFor(domains, def.id, MaxDomains)
        /\ UNCHANGED <<grids, anchors, exclusions, domainExclusions, capabilities>>
    BY <1>4 DEF RegisterDomain
  <2>2. Bounded(domains', MaxDomains)
    BY <2>1, RoomKeepsBound, StoredDomain, RegistryAssumption
  <2> QED
    BY <1>0, <1>1, <2>1, <2>2
<1>5. ASSUME NEW def \in ExclusionDef, RegisterExclusionDomain(def)
      PROVE  ShapeInv'
  <2> DEFINE index == WithoutExclusion(def.id)
  <2>1. /\ RoomFor(exclusions, def.id, MaxExclusions)
        /\ exclusions' \in {exclusions, [exclusions EXCEPT ![def.id] = Stored(def)]}
        /\ domainExclusions' \in
             {index, [d \in Domain |-> IF d \in def.members THEN index[d] \cup {def.id}
                                                            ELSE index[d]]}
        /\ UNCHANGED <<grids, anchors, domains, capabilities>>
    BY <1>5 DEF RegisterExclusionDomain, ExclusionAdmissible
  <2>2. def.id \in Exclusion
    BY StoredExclusion
  <2>3. Bounded(exclusions', MaxExclusions)
    BY <2>1, <2>2, RoomKeepsBound, RegistryAssumption
  <2>4. exclusions' \in [Exclusion -> [generation : Nat, members : SUBSET Domain]]
    BY <2>1, <2>2, StoredExclusionType
  <2>5. domainExclusions' \in [Domain -> SUBSET Exclusion]
    BY <2>1, <2>2 DEF WithoutExclusion
  <2> QED
    BY <1>0, <1>1, <2>1, <2>3, <2>4, <2>5
<1> QED
  BY <1>2, <1>3, <1>4, <1>5 DEF Register

\* Every step keeps the shape.
LEMMA NextShape == ShapeInv /\ [Next]_vars => ShapeInv'
<1> SUFFICES ASSUME ShapeInv, [Next]_vars
             PROVE  ShapeInv'
  OBVIOUS
<1>1. CASE Register
  BY <1>1, RegisterShape
<1>2. ASSUME NEW token, NEW next \in [Kind -> 1..MaxAuthority], AdvanceAuthority(token, next)
      PROVE  ShapeInv'
  BY <1>2 DEF AdvanceAuthority, registry, ShapeInv, Shaped
<1>3. ASSUME UNCHANGED control
      PROVE  UNCHANGED Tokens
  BY <1>3 DEF control, Tokens, Token
<1>4. ASSUME NEW token, NEW def \in CapabilityDef, PublishCapability(token, def)
      PROVE  ShapeInv'
  <2>1. DOMAIN capabilities' = Domain
    BY <1>4 DEF PublishCapability, ShapeInv, Shaped
  <2> QED
    BY <1>3, <1>4, <2>1 DEF PublishCapability, control, ShapeInv, Shaped
<1>5. ASSUME NEW references, disk' = {ImageWith(references)}, UNCHANGED <<registry, control>>
      PROVE  ShapeInv'
  <2> DEFINE image == ImageWith(references)
  <2>1. /\ UNCHANGED <<grids, anchors, domains, exclusions, domainExclusions,
                       capabilities, authority, fence, boots, minted, Tokens>>
        /\ disk' = {image}
    BY <1>3, <1>5 DEF registry, control
  <2>2. /\ image.grids = grids /\ image.anchors = anchors /\ image.domains = domains
        /\ image.exclusions = exclusions /\ image.capabilities = capabilities
        /\ image.authority = authority /\ image.epoch = fence.epoch
    BY DEF ImageWith
  <2> HIDE DEF image
  <2>3. Shaped(image.grids, image.anchors, image.domains, image.exclusions,
               image.capabilities, image.authority, image.epoch)
    BY <2>2 DEF ShapeInv
  <2> QED
    BY <2>1, <2>3 DEF ShapeInv
<1>6. CASE Authorised
  BY <1>2, <1>4, <1>5, <1>6 DEF Authorised, Allocate
<1>7. CASE Save
  BY <1>5, <1>7 DEF Save, Image
<1>8. ASSUME NEW epoch \in Nat \ {0}, NEW generations, Boot(epoch, boots + 1, generations)
      PROVE  /\ fence' \in [epoch : Nat \ {0}, incarnation : Nat \ {0}]
             /\ fence'.epoch = epoch /\ authority' = generations
             /\ boots' \in Nat /\ Tokens' \subseteq minted'
  BY <1>8 DEF Boot, ShapeInv
<1>9. CASE Recover
  <2>1. PICK image \in disk :
          /\ Restored(image) /\ domainExclusions' \in IndexAfterRecovery
          /\ Boot(image.epoch + 1, boots + 1, image.authority) /\ UNCHANGED disk
    BY <1>9 DEF Recover, FreshIncarnation
  <2>2. image.epoch + 1 \in Nat \ {0}
    BY DEF ShapeInv, Shaped
  <2>3. domainExclusions' \in [Domain -> SUBSET Exclusion]
    BY <2>1 DEF IndexAfterRecovery, ShapeInv
  <2>4. Shaped(image.grids, image.anchors, image.domains, image.exclusions,
               image.capabilities, image.authority, image.epoch + 1)
    BY <2>2 DEF ShapeInv, Shaped
  <2> QED
    BY <1>8, <2>1, <2>2, <2>3, <2>4 DEF Restored, ShapeInv
<1>10. CASE StartAfresh \/ Reset
  <2>1. Cleared
    BY <1>10 DEF StartAfresh, Reset
  <2>2. /\ Bounded(grids', MaxGrids) /\ Bounded(domains', MaxDomains)
        /\ Bounded(exclusions', MaxExclusions)
    BY <2>1, NothingRegistered, RegistryAssumption DEF Cleared, NoGrid, NoDomain, NoExclusion
  <2>3. /\ authority' \in [Kind -> 1..MaxAuthority] /\ fence'.epoch \in Nat \ {0}
        /\ fence' \in [epoch : Nat \ {0}, incarnation : Nat \ {0}]
        /\ boots' \in Nat /\ Tokens' \subseteq minted'
    <3>1. CASE StartAfresh
      BY <1>8, <3>1, RegistryAssumption DEF StartAfresh
    <3>2. CASE Reset
      BY <1>3, <3>2 DEF Reset, control, ShapeInv, Shaped
    <3> QED
      BY <1>10, <3>1, <3>2
  <2>4. /\ DOMAIN grids' = Grid /\ DOMAIN domains' = Domain /\ DOMAIN capabilities' = Domain
        /\ exclusions' \in [Exclusion -> [generation : Nat, members : SUBSET Domain]]
        /\ domainExclusions' \in [Domain -> SUBSET Exclusion] /\ disk' = disk
    BY <2>1 DEF Cleared, NoExclusion
  <2>5. anchors' \in [Span \cup Port -> 0..MaxAnchor]
    BY <2>1, RegistryAssumption DEF Cleared
  <2>6. Shaped(grids, anchors, domains, exclusions, capabilities, authority, fence.epoch)'
    BY <2>2, <2>3, <2>4, <2>5 DEF Shaped
  <2> QED
    BY <2>3, <2>4, <2>6 DEF ShapeInv
<1>11. CASE UNCHANGED vars
  BY <1>3, <1>11 DEF vars, registry, control, ShapeInv, Shaped
<1> QED
  BY <1>1, <1>6, <1>7, <1>9, <1>10, <1>11 DEF Next

\* The registries stay within their bounds and every table within its type, in
\* every order of registrations, publications, saves, crashes and resets.
THEOREM RegistryTypes == Spec => []TypeOK
<1>1. ShapeInv => TypeOK
  <2>1. ASSUME ShapeInv PROVE Cardinality(disk) <= 1
    <3>1. CASE disk = {}
      BY <3>1, FS_EmptySet
    <3>2. ASSUME NEW image, disk = {image} PROVE Cardinality(disk) <= 1
      <4>1. Cardinality({image}) = 1
        BY FS_Singleton
      <4>2. Cardinality(disk) = 1
        BY <3>2, <4>1
      <4> QED
        BY <4>2
    <3> QED
      BY <2>1, <3>1, <3>2 DEF ShapeInv
  <2> QED
    BY <2>1 DEF ShapeInv, Shaped, Bounded, TypeOK
<1> QED
  BY <1>1, InitShape, NextShape, PTL DEF Spec
=============================================================================
