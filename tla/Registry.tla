------------------------------ MODULE Registry ------------------------------
(***************************************************************************)
(* What SpectrumRuntime is told about the network, and by whom: grids,     *)
(* spans, ports, spectrum domains, exclusion domains and capability        *)
(* publications, each under a generation its caller chooses; the           *)
(* controller's fence and authority generations; and the state file that   *)
(* carries all of it across restarts.                                      *)
(*                                                                         *)
(* A reservation is here only the references it holds: Fabric has its life. *)
(* A call that is refused changes nothing but audit and statistics, with   *)
(* the one exception of registerExclusionDomain. Shapes (labels, numeric   *)
(* ranges) are taken as valid: a call the shape check refuses is not here. *)
(***************************************************************************)
EXTENDS Integers, FiniteSets

CONSTANTS
  Grid, Span, Port, Domain, Exclusion,  \* identities
  GridDef,          \* grids a caller may register: [id, generation, slots]
  DomainDef,        \* domains: [id, generation, grid, gridGeneration, span]
  ExclusionDef,     \* exclusion domains: [id, generation, members]
  CapabilityDef,    \* publications: [domain, domainGeneration, grid,
                    \* gridGeneration, generation, slots]; no slots is UNSUPPORTED
  NoSpan,           \* a domain that names no span
  Kind,             \* domains of authority: eligibility, reservation, ...
  MaxGrids, MaxDomains, MaxExclusions,  \* RuntimeConfig
  MaxPerMember,     \* kMaxExclusionDomainsPerMember
  RecoverInPlace,   \* whether a running process is told to recover
  MaxReferences,    \* bound: references held at a time
  MaxAnchor,        \* bound: generations of spans and ports
  MaxAuthority,     \* bound: generations of authority
  MaxBoots          \* bound: incarnations minted

\* What validateGrid, validateDomain, validateExclusionDomain and
\* validateCapabilityShape let through: every generation is set, and an
\* exclusion domain has members.
GridType == [id : Grid, generation : Nat \ {0}, slots : Nat \ {0}]

DomainType ==
  [id : Domain, generation : Nat \ {0}, grid : Grid, gridGeneration : Nat \ {0},
   span : Span \cup {NoSpan}]

ExclusionType ==
  [id : Exclusion, generation : Nat \ {0}, members : (SUBSET Domain) \ {{}}]

CapabilityType ==
  [domain : Domain, domainGeneration : Nat \ {0}, grid : Grid,
   gridGeneration : Nat \ {0}, generation : Nat \ {0}, slots : Nat]

ASSUME RegistryAssumption ==
  /\ GridDef \subseteq GridType
  /\ DomainDef \subseteq DomainType
  /\ ExclusionDef \subseteq ExclusionType
  /\ CapabilityDef \subseteq CapabilityType
  /\ NoSpan \notin Span
  /\ Span \cap Port = {}
  /\ {"eligibility", "reservation"} \subseteq Kind
  /\ {MaxGrids, MaxDomains, MaxExclusions, MaxPerMember} \subseteq Nat \ {0}
  /\ RecoverInPlace \in BOOLEAN
  /\ MaxReferences \in Nat \ {0} /\ MaxAnchor \in Nat \ {0}
  /\ MaxAuthority \in Nat \ {0} /\ MaxBoots \in Nat \ {0}

VARIABLES
  grids,            \* RuntimeState::grids
  anchors,          \* RuntimeState::spans and ::ports: the generation of each
  domains,          \* RuntimeState::domains
  exclusions,       \* RuntimeState::exclusionDomains
  domainExclusions, \* RuntimeState::domainExclusions
  capabilities,     \* RuntimeState::capabilities
  reservations,     \* the references held by RuntimeState::reservations
  authority,        \* RuntimeState::authority: a generation for each domain of it
  fence,            \* RuntimeState::fence: [epoch, incarnation]
  disk,             \* the published state file: a set of at most one image
  boots,            \* incarnations minted so far
  minted            \* history: every token that was ever in force

registry == <<grids, anchors, domains, exclusions, domainExclusions, capabilities>>
control == <<authority, fence, boots, minted>>
vars == <<registry, reservations, control, disk>>

NoGrid == [generation |-> 0, slots |-> 0]
NoDomain == [generation |-> 0, grid |-> "none", gridGeneration |-> 0, span |-> NoSpan]
NoExclusion == [generation |-> 0, members |-> {}]
NoCapability == [domainGeneration |-> 0, grid |-> "none", gridGeneration |-> 0,
                 generation |-> 0, slots |-> 0]

\* What is stored of a definition: all of it but its own identity.
Stored(def) == [f \in DOMAIN def \ {"id", "domain"} |-> def[f]]

Registered(table) == {k \in DOMAIN table : table[k].generation # 0}

\* Mutant: the generation in force may be registered again.
AdvancesOrRepeats(old, generation) == generation >= old

\* The same generation is a Duplicate, an older one a StaleGeneration.
Advances(old, generation) == generation > old

\* Mutant: the bound is off by one.
RoomAtBound(table, k, bound) ==
  table[k].generation # 0 \/ Cardinality(Registered(table)) <= bound

\* A new entry needs room; a newer generation of a known one does not.
RoomFor(table, k, bound) ==
  table[k].generation # 0 \/ Cardinality(Registered(table)) < bound

-----------------------------------------------------------------------------
(* Registration. None of these calls is written to the state file, and none *)
(* looks at what already refers to the entry it replaces.                   *)

RegisterGrid(def) ==
  /\ Advances(grids[def.id].generation, def.generation)
  /\ RoomFor(grids, def.id, MaxGrids)
  /\ grids' = [grids EXCEPT ![def.id] = Stored(def)]
  /\ UNCHANGED <<anchors, domains, exclusions, domainExclusions, capabilities,
                 reservations, control, disk>>

\* registerSpan and registerPort.
RegisterAnchor(a, generation) ==
  /\ Advances(anchors[a], generation)
  /\ anchors' = [anchors EXCEPT ![a] = generation]
  /\ UNCHANGED <<grids, domains, exclusions, domainExclusions, capabilities,
                 reservations, control, disk>>

\* The grid must be registered at the generation the domain names.
GridCurrent(def) == grids[def.grid].generation = def.gridGeneration

\* Of the anchors only the span must exist, at whatever generation.
RegisterDomain(def) ==
  /\ GridCurrent(def)
  /\ def.span # NoSpan => anchors[def.span] # 0
  /\ Advances(domains[def.id].generation, def.generation)
  /\ RoomFor(domains, def.id, MaxDomains)
  /\ domains' = [domains EXCEPT ![def.id] = Stored(def)]
  /\ UNCHANGED <<grids, anchors, exclusions, domainExclusions, capabilities,
                 reservations, control, disk>>

ExclusionAdmissible(def) ==
  /\ \A d \in def.members : domains[d].generation # 0
  /\ Advances(exclusions[def.id].generation, def.generation)
  /\ RoomFor(exclusions, def.id, MaxExclusions)

\* Mutant: the previous membership stays in the index.
StillListed(x) == domainExclusions

\* The index without the previous membership of an exclusion domain.
WithoutExclusion(x) ==
  [d \in Domain |-> IF d \in exclusions[x].members
                      THEN domainExclusions[d] \ {x} ELSE domainExclusions[d]]

\* A member that already belongs to as many exclusion domains as it may.
Crowded(index, def) ==
  \E d \in def.members : Cardinality(index[d]) >= MaxPerMember /\ def.id \notin index[d]

\* The bound on a member is tested after the previous membership was removed
\* from the index, and nothing puts it back: a refused registration leaves the
\* exclusion domain registered as it was, and enforced nowhere.
RegisterExclusionDomain(def) ==
  LET index == WithoutExclusion(def.id) IN
  /\ ExclusionAdmissible(def)
  /\ \/ /\ Crowded(index, def)
        /\ domainExclusions' = index
        /\ UNCHANGED exclusions
     \/ /\ ~Crowded(index, def)
        /\ exclusions' = [exclusions EXCEPT ![def.id] = Stored(def)]
        /\ domainExclusions' = [d \in Domain |-> IF d \in def.members
                                                   THEN index[d] \cup {def.id}
                                                   ELSE index[d]]
  /\ UNCHANGED <<grids, anchors, domains, capabilities, reservations, control, disk>>

-----------------------------------------------------------------------------
(* Authority                                                               *)

\* The token of one domain of authority: a generation under a fence.
Token(k) == [kind |-> k, generation |-> authority[k], fence |-> fence]

Tokens == {Token(k) : k \in Kind}

\* checkFence: both parts of the fence must match.
FenceCurrent(token) == token.fence = fence

\* check*Authority: the fence and the generation of the token's own domain.
InForce(token) == FenceCurrent(token) /\ token.generation = authority[token.kind]

\* Mutant: generations may be set to anything else.
Moved(next) == next # authority

\* One older generation makes it stale, the same ones a Duplicate.
MovesForward(next) ==
  /\ \A k \in Kind : next[k] >= authority[k]
  /\ next # authority

AdvanceAuthority(token, next) ==
  /\ FenceCurrent(token)
  /\ MovesForward(next)
  /\ authority' = next
  /\ UNCHANGED <<registry, reservations, fence, boots, disk>>
  /\ minted' = minted \cup Tokens'

\* Mutant: a publication is only held against the domain's generation.
PublishableForDomain(def) ==
  /\ domains[def.domain].generation = def.domainGeneration
  /\ domains[def.domain].generation # 0

\* A publication must agree with the domain, and with the grid as it is now;
\* a supported one must fit the grid.
Publishable(def) ==
  /\ domains[def.domain].generation = def.domainGeneration
  /\ domains[def.domain].grid = def.grid
  /\ domains[def.domain].gridGeneration = def.gridGeneration
  /\ grids[def.grid].generation = def.gridGeneration
  /\ def.slots <= grids[def.grid].slots

PublishCapability(token, def) ==
  /\ FenceCurrent(token)
  /\ Publishable(def)
  /\ Advances(capabilities[def.domain].generation, def.generation)
  /\ capabilities' = [capabilities EXCEPT ![def.domain] = Stored(def)]
  /\ UNCHANGED <<grids, anchors, domains, exclusions, domainExclusions,
                 reservations, control, disk>>

-----------------------------------------------------------------------------
(* Reservations and the state file                                         *)

ImageWith(references) ==
  [grids |-> grids, anchors |-> anchors, domains |-> domains,
   exclusions |-> exclusions, capabilities |-> capabilities,
   reservations |-> references, authority |-> authority, epoch |-> fence.epoch,
   incarnation |-> fence.incarnation]

Image == ImageWith(reservations)

\* prepare, for one domain of a request that names current generations. That
\* the capability's grid generation is current is not tested.
Servable(d) ==
  /\ domains[d].generation # 0
  /\ capabilities[d].domainGeneration = domains[d].generation
  /\ capabilities[d].slots # 0
  /\ grids[domains[d].grid].generation # 0

\* The references a reservation keeps, one record per domain it spans; the
\* last two are the definitions these generations stood for.
Reference(d, g) ==
  [domain |-> d, domainGeneration |-> domains[d].generation, grid |-> g,
   gridGeneration |-> grids[g].generation, slots |-> grids[g].slots,
   home |-> domains[d]]

\* allocate, with durable commits: the whole state is written. When the write
\* fails the reservation is rolled back, and nothing of this module changes.
Allocate(tokens, ds, g) ==
  /\ \A k \in {"eligibility", "reservation"} :
       \E token \in tokens : token.kind = k /\ InForce(token)
  /\ grids[g].generation # 0
  /\ \A d \in ds : Servable(d)
  /\ reservations' = reservations \cup {Reference(d, g) : d \in ds}
  /\ Cardinality(reservations') <= MaxReferences
  /\ disk' = {ImageWith(reservations')}
  /\ UNCHANGED <<registry, control>>

Save ==
  /\ disk' = {Image}
  /\ UNCHANGED <<registry, reservations, control>>

\* The semantic checks of decodeState that concern references.
Loadable(image) ==
  /\ \A d \in Registered(image.domains) :
       /\ image.grids[image.domains[d].grid].generation = image.domains[d].gridGeneration
       /\ image.domains[d].span # NoSpan => image.anchors[image.domains[d].span] # 0
  /\ \A x \in Registered(image.exclusions) :
       image.exclusions[x].members \subseteq Registered(image.domains)
  /\ \A d \in Registered(image.capabilities) :
       /\ d \in Registered(image.domains)
       /\ image.capabilities[d].grid = image.domains[d].grid
       /\ image.capabilities[d].gridGeneration = image.domains[d].gridGeneration
  /\ \A r \in image.reservations :
       image.domains[r.domain].generation = r.domainGeneration

\* The constructor mints an incarnation, and recover another.
Boot(epoch, incarnation, generations) ==
  /\ boots < MaxBoots
  /\ boots' = boots + 1
  /\ fence' = [epoch |-> epoch, incarnation |-> incarnation]
  /\ authority' = generations
  /\ minted' = minted \cup Tokens'

\* nextIncarnation mixes process, time and a sequence "so that two runtimes
\* never share an incarnation"; here it never repeats.
FreshIncarnation(image) == boots + 1

\* rebuildIndices does not rebuild domainExclusions: it is empty in a new
\* process, and in one that is told to recover it stays what it was.
IndexAfterRecovery ==
  {[d \in Domain |-> {}]} \cup (IF RecoverInPlace THEN {domainExclusions} ELSE {})

\* decodeState reads every record back into its table.
Restored(image) ==
  /\ grids' = image.grids /\ anchors' = image.anchors
  /\ domains' = image.domains /\ exclusions' = image.exclusions
  /\ capabilities' = image.capabilities
  /\ reservations' = image.reservations

\* The process dies and a new one recovers, as wavelengthd does at its start, or
\* a running one is told to.
Recover ==
  \E image \in disk :
    /\ Loadable(image)
    /\ Restored(image)
    /\ domainExclusions' \in IndexAfterRecovery
    /\ Boot(image.epoch + 1, FreshIncarnation(image), image.authority)
    /\ UNCHANGED disk

Cleared ==
  /\ grids' = [g \in Grid |-> NoGrid]
  /\ anchors' = [a \in Span \cup Port |-> 0]
  /\ domains' = [d \in Domain |-> NoDomain]
  /\ exclusions' = [x \in Exclusion |-> NoExclusion]
  /\ domainExclusions' = [d \in Domain |-> {}]
  /\ capabilities' = [d \in Domain |-> NoCapability]
  /\ reservations' = {}
  /\ UNCHANGED disk

\* The process dies before anything was saved.
StartAfresh ==
  /\ disk = {}
  /\ Boot(1, boots + 1, [k \in Kind |-> 1])
  /\ Cleared

\* reset keeps fence and authority, and the state file.
Reset == Cleared /\ UNCHANGED control

-----------------------------------------------------------------------------
Init ==
  /\ grids = [g \in Grid |-> NoGrid]
  /\ anchors = [a \in Span \cup Port |-> 0]
  /\ domains = [d \in Domain |-> NoDomain]
  /\ exclusions = [x \in Exclusion |-> NoExclusion]
  /\ domainExclusions = [d \in Domain |-> {}]
  /\ capabilities = [d \in Domain |-> NoCapability]
  /\ reservations = {}
  /\ authority = [k \in Kind |-> 1]
  /\ fence = [epoch |-> 1, incarnation |-> 1]
  /\ disk = {}
  /\ boots = 1
  /\ minted = Tokens

Register ==
  \/ \E def \in GridDef : RegisterGrid(def)
  \/ \E a \in Span \cup Port, generation \in 1..MaxAnchor : RegisterAnchor(a, generation)
  \/ \E def \in DomainDef : RegisterDomain(def)
  \/ \E def \in ExclusionDef : RegisterExclusionDomain(def)

\* A client may present any token that was ever in force.
Authorised ==
  \/ \E token \in minted :
       \/ \E next \in [Kind -> 1..MaxAuthority] : AdvanceAuthority(token, next)
       \/ \E def \in CapabilityDef : PublishCapability(token, def)
  \/ \E ds \in (SUBSET Domain) \ {{}}, g \in Grid : Allocate(minted, ds, g)

Next == Register \/ Authorised \/ Save \/ Recover \/ StartAfresh \/ Reset

Spec == Init /\ [][Next]_vars

-----------------------------------------------------------------------------
(* Properties                                                              *)

\* Shape of the state, with its registries within their bounds.
TypeOK ==
  /\ DOMAIN grids = Grid /\ DOMAIN domains = Domain /\ DOMAIN capabilities = Domain
  /\ anchors \in [Span \cup Port -> 0..MaxAnchor]
  /\ exclusions \in [Exclusion -> [generation : Nat, members : SUBSET Domain]]
  /\ domainExclusions \in [Domain -> SUBSET Exclusion]
  /\ authority \in [Kind -> 1..MaxAuthority]
  /\ fence \in [epoch : Nat \ {0}, incarnation : Nat \ {0}]
  /\ Tokens \subseteq minted
  /\ Cardinality(disk) <= 1
  /\ Cardinality(Registered(grids)) <= MaxGrids
  /\ Cardinality(Registered(domains)) <= MaxDomains
  /\ Cardinality(Registered(exclusions)) <= MaxExclusions

\* Every reference of an image that is meant to be current is: domains and
\* their grids, publications and reservations and their domains.
AllCurrent(image) ==
  /\ \A d \in Registered(image.domains) :
       image.grids[image.domains[d].grid].generation = image.domains[d].gridGeneration
  /\ \A d \in Registered(image.capabilities) :
       image.capabilities[d].domainGeneration = image.domains[d].generation
  /\ \A r \in image.reservations :
       image.domains[r.domain].generation = r.domainGeneration

\* An image none of whose references has been overtaken by a newer
\* registration can be loaded (decodeState against what registration and
\* publication let through).
CurrentImageLoads == \A image \in disk : AllCurrent(image) => Loadable(image)

\* Whatever was saved can be loaded again (README: recovery restores
\* everything exactly; a registration that overtakes what refers to it makes
\* the image one that decodeState refuses).
ImageLoadable == \A image \in disk : Loadable(image)

\* Unless a running process is told to recover, an exclusion domain is enforced
\* between all of its members or between none: the index crossDomainFree reads
\* never covers part of a membership, and never a domain that has left it.
EnforcedThroughoutOrNowhere ==
  RecoverInPlace \/ \A x \in Exclusion :
    LET listed == {d \in Domain : x \in domainExclusions[d]}
    IN  listed = {} \/ listed = exclusions[x].members

\* A generation identifies what it was given to: as long as the registry is at
\* the generations a reservation names, these are the very definitions it was
\* granted under, across crashes that lose registrations, and resets.
GenerationsIdentify ==
  \A r \in reservations :
    /\ domains[r.domain].generation = r.domainGeneration => domains[r.domain] = r.home
    /\ grids[r.grid].generation = r.gridGeneration => grids[r.grid].slots = r.slots

\* Authority that has been superseded, or whose incarnation has died, is never
\* in force again, whichever image the next one starts from (advanceAuthority
\* is not written to the state file).
StaleAuthorityStaysStale ==
  [][\A token \in minted : ~InForce(token) => ~InForce(token)']_vars
=============================================================================
