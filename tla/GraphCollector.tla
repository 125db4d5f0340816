---------------------------- MODULE GraphCollector ----------------------------
(***************************************************************************)
(* The dependency graph around some packages: forwards from the registries *)
(* (collector.rs), by levels of concurrent fetches, and backwards from an  *)
(* export of deps.dev (deps_dev.rs).  Packages are numbers in the order of *)
(* their normalised names, of one ecosystem.                               *)
(*                                                                         *)
(* An index of a crate is a sequence of [yanked, edges], and an edge is    *)
(* [crate, kind, optional]; kind may be "none".  A row of the export is    *)
(* [system, name, dependent_system, dependent, depth, highest], where      *)
(* highest may be "none", and depth 0 stands for none.                     *)
(***************************************************************************)
EXTENDS Integers, Sequences, FiniteSets, SequencesExt

CONSTANTS
    Registered,         \* the packages there are
    Requirements,       \* the graphs the registry may show: [Registered -> SUBSET Registered]
    SeedPackages,       \* a sequence of packages
    SeedPopularity,     \* what is given: a function of some packages
    MaxDepth,
    MaxPackages,
    RequestConcurrency,
    ExternalFallback    \* allow_external_fallback

ASSUME CollectorAssumption ==
    /\ IsFiniteSet(Registered) /\ Registered \subseteq Nat
    /\ Requirements \subseteq [Registered -> SUBSET Registered]
    /\ SeedPackages \in Seq(Registered)
    /\ MaxDepth \in Nat /\ MaxPackages \in Nat \ {0} /\ RequestConcurrency \in Nat \ {0}

-----------------------------------------------------------------------------
(* What a registry tells of a package: [found, dependencies, popularity,   *)
(* repository, external].                                                  *)

NoNode == [found |-> FALSE]
NodeOf(dependencies, popularity, repository, external) ==
    [found |-> TRUE, dependencies |-> dependencies, popularity |-> popularity,
     repository |-> repository, external |-> external]

\* fetch_npm_node: the latest manifest, or else the packument's latest version.
FetchNpmNode(latest, packument) ==
    IF latest.found THEN NodeOf(latest.dependencies, {}, latest.repository, FALSE)
    ELSE IF packument.found /\ packument.latest \in DOMAIN packument.versions
    THEN LET meta == packument.versions[packument.latest]
         IN  NodeOf(meta.dependencies, {}, meta.repository, FALSE)
    ELSE NoNode

FetchPypiNode(project) ==
    IF project.found THEN NodeOf(project.requires, {}, project.repository, FALSE) ELSE NoNode

\* The dependencies that count: neither optional nor of a build or of tests.
DirectCrates(edges) ==
    {e.crate : e \in {x \in edges : x.kind \in {"none", "normal"} /\ ~x.optional}}

\* select_latest_crates_index_entry: the last line that is not yanked, if any.
LatestIndexEntry(lines) ==
    LET kept == {i \in DOMAIN lines : ~lines[i].yanked}
        candidates == IF kept = {} THEN DOMAIN lines ELSE kept
    IN  {lines[i] : i \in {x \in candidates : \A y \in candidates : y <= x}}

\* fetch_crates_node: the sparse index, or else the API's latest version.
FetchCratesNode(index, api) ==
    IF index.found /\ index.lines # <<>>
    THEN NodeOf(UNION {DirectCrates(e.edges) : e \in LatestIndexEntry(index.lines)}, {}, {}, FALSE)
    ELSE IF api.found /\ api.latest # {}
    THEN NodeOf(DirectCrates(api.edges), api.downloads, api.repository, FALSE)
    ELSE NoNode

\* select_deps_dev_default_version: the default, or else the last published.
DepsDevVersion(versions) ==
    LET marked == {i \in DOMAIN versions : versions[i].default}
        first  == {i \in marked : \A j \in marked : i <= j}
        newest == {i \in DOMAIN versions : \A j \in DOMAIN versions :
                      \/ versions[j].published < versions[i].published
                      \/ versions[j].published = versions[i].published /\ j <= i}
    IN  {versions[i].version : i \in IF marked # {} THEN first ELSE newest}

\* extract_deps_dev_direct_dependencies: the edges of the first node.
DepsDevDependencies(graph) ==
    {graph.nodes[e.to] : e \in {x \in graph.edges : x.from = 0 /\ x.to \in DOMAIN graph.nodes}}

FetchDepsDevNode(versions, graph) ==
    IF DepsDevVersion(versions) = {} \/ ~graph.found THEN NoNode
    ELSE NodeOf(DepsDevDependencies(graph), {}, {}, TRUE)

\* fetch_node
FetchNode(registry, external) ==
    IF registry.found \/ ~ExternalFallback THEN registry ELSE external

-----------------------------------------------------------------------------
(* Collecting forwards.                                                    *)

VARIABLES
    registry_graph,          \* the graph the registry shows
    seen_packages,           \* seen: what was scheduled in this level or before
    collected_packages,      \* packages: [those fetched, or tried -> popularity]
    collected_edges,         \* edges: of <<package, dependency>>
    collected_repositories,  \* the packages of which a repository is known
    fetch_failures,
    frontier_packages,       \* frontier: a sequence of packages
    scheduled_packages,      \* the packages of this level, a sequence
    fetch_answers,           \* what was answered, in that order: of [package, node]
    collect_level,
    collecting      \* the loop has not ended

collectorVars ==
    <<registry_graph, seen_packages, collected_packages, collected_edges, collected_repositories,
      fetch_failures, frontier_packages, scheduled_packages, fetch_answers, collect_level, collecting>>

CollectedPopularity(package, node) ==
    IF package \in DOMAIN SeedPopularity THEN {SeedPopularity[package]} ELSE node

\* Mutant: room for as many packages again in every level.
RoomEveryLevel(seen) == MaxPackages

RemainingCapacity(seen) == MaxPackages - Cardinality(seen)

\* The frontier in its order, without what was seen, as far as there is room.
ScheduledOf(queue, seen) ==
    LET chosen[n \in 0..Len(queue)] ==
            IF n = 0 THEN <<>>
            ELSE LET before == chosen[n - 1]
                 IN  IF queue[n] \in seen \cup ToSet(before) \/ Len(before) >= RemainingCapacity(seen)
                     THEN before ELSE Append(before, queue[n])
    IN  chosen[Len(queue)]

Schedule ==
    /\ collecting /\ scheduled_packages = <<>>
    /\ LET chosen == ScheduledOf(frontier_packages, seen_packages)
       IN  IF collect_level > MaxDepth \/ Cardinality(seen_packages) >= MaxPackages \/ chosen = <<>>
           THEN /\ collecting' = FALSE
                /\ UNCHANGED <<seen_packages, frontier_packages, scheduled_packages>>
           ELSE /\ scheduled_packages' = chosen /\ seen_packages' = seen_packages \cup ToSet(chosen)
                /\ frontier_packages' = <<>>
                /\ UNCHANGED collecting
    /\ UNCHANGED <<registry_graph, collected_packages, collected_edges, collected_repositories,
                   fetch_failures, fetch_answers, collect_level>>

\* buffer_unordered: as many fetches at a time, in the order of the schedule,
\* and their answers as they come.
Running ==
    LET room    == Len(fetch_answers) + RequestConcurrency
        total   == Len(scheduled_packages)
        started == SubSeq(scheduled_packages, 1, IF room < total THEN room ELSE total)
    IN  ToSet(started) \ {fetch_answers[i].package : i \in DOMAIN fetch_answers}

\* A registry that answers tells what is there; deps.dev no repository.
PossibleNodes(p) ==
    {FetchNode(registry, external) :
        registry \in {NodeOf(registry_graph[p], {}, {p}, FALSE), NoNode},
        external \in {NodeOf(registry_graph[p], {}, {}, TRUE), NoNode}}

FetchOne(p) ==
    /\ collecting /\ p \in Running
    /\ \E node \in PossibleNodes(p) :
           fetch_answers' = Append(fetch_answers, [package |-> p, node |-> node])
    /\ UNCHANGED <<registry_graph, seen_packages, collected_packages, collected_edges,
                   collected_repositories, fetch_failures, frontier_packages, scheduled_packages,
                   collect_level, collecting>>

\* What a node finds that is still to be fetched, in any order: a map's keys.
Discovered(answer) ==
    IF ~answer.node.found \/ collect_level >= MaxDepth THEN {<<>>}
    ELSE LET new == answer.node.dependencies \ seen_packages
         IN  {s \in [1..Cardinality(new) -> new] : ToSet(s) = new}

NextFrontiers ==
    LET queues[n \in 0..Len(fetch_answers)] ==
            IF n = 0 THEN {<<>>}
            ELSE {q \o d : q \in queues[n - 1], d \in Discovered(fetch_answers[n])}
    IN  queues[Len(fetch_answers)]

EndLevel ==
    /\ collecting /\ scheduled_packages # <<>> /\ Len(fetch_answers) = Len(scheduled_packages)
    /\ LET found == {a \in ToSet(fetch_answers) : a.node.found}
           new   == {a.package : a \in ToSet(fetch_answers)}
           popularity(p) ==
               LET answer == CHOOSE a \in ToSet(fetch_answers) : a.package = p
               IN  CollectedPopularity(p, IF answer.node.found THEN answer.node.popularity ELSE {})
       IN  /\ collected_packages' = [p \in DOMAIN collected_packages \cup new |->
                               IF p \in new THEN popularity(p) ELSE collected_packages[p]]
           /\ collected_edges' = collected_edges \cup
                  UNION {{a.package} \X a.node.dependencies : a \in found}
           /\ collected_repositories' = collected_repositories \cup
                  {a.package : a \in {x \in found : x.node.repository # {}}}
           /\ fetch_failures' = fetch_failures + Cardinality(new) - Cardinality(found)
    /\ frontier_packages' \in NextFrontiers
    /\ scheduled_packages' = <<>> /\ fetch_answers' = <<>> /\ collect_level' = collect_level + 1
    /\ UNCHANGED <<registry_graph, seen_packages, collecting>>

CollectorStart ==
    /\ seen_packages = {} /\ collected_packages = [p \in {} |-> {}]
    /\ collected_edges = {} /\ collected_repositories = {} /\ fetch_failures = 0
    /\ frontier_packages = SeedPackages
    /\ scheduled_packages = <<>> /\ fetch_answers = <<>> /\ collect_level = 0
    /\ collecting = TRUE

CollectorInit == registry_graph \in Requirements /\ CollectorStart

CollectorNext == Schedule \/ (\E p \in Registered : FetchOne(p)) \/ EndLevel

CollectorSpec == CollectorInit /\ [][CollectorNext]_collectorVars

\* The records that are emitted; a package nothing is known of counts as 0.
CollectedRecords ==
    {[kind |-> "package", package |-> p,
      popularity |-> IF collected_packages[p] = {} THEN 0
                     ELSE CHOOSE n \in collected_packages[p] : TRUE] : p \in DOMAIN collected_packages} \cup
    {[kind |-> "dependency", package |-> d[1], dependency |-> d[2]] : d \in collected_edges}

-----------------------------------------------------------------------------
(* An export of deps.dev.                                                  *)

Systems == {"npm", "pypi", "cargo"}

\* A row that is imported, and one that a focus on a package of it uses.
HighestRelease(row, others) == others \/ row.highest # "no"
Imported(row, indirect, others) ==
    /\ row.system \in Systems /\ row.dependent_system = row.system
    /\ indirect \/ row.depth = 1
    /\ HighestRelease(row, others)
Focused(row, system, others) ==
    /\ row.system = system /\ row.dependent_system = system
    /\ row.depth = 1
    /\ HighestRelease(row, others)

\* import_dependents_latest_from_inputs: packages, and edges of a package to
\* its dependency; a package's popularity is how many depend on it.
ImportDependents(rows, indirect, others, default, by_count) ==
    LET imported == {r \in ToSet(rows) : Imported(r, indirect, others)}
        edges == {<<r.system, r.dependent, r.name>> : r \in {x \in imported : x.dependent # x.name}}
        named == UNION {{<<r.system, r.name>>, <<r.system, r.dependent>>} : r \in imported}
        count(p) == Cardinality({e \in edges : e[1] = p[1] /\ e[3] = p[2]})
    IN  [edges |-> edges,
         packages |-> {[package |-> p, popularity |->
                           IF by_count /\ count(p) > default THEN count(p) ELSE default] : p \in named}]

\* The rows that name a dependent other than the package itself.
ReverseEdges(rows, system, others) ==
    {<<r.name, r.dependent>> :
        r \in {x \in ToSet(rows) : Focused(x, system, others) /\ x.name # x.dependent}}

\* One step of the search: the first package of the queue, and its dependents
\* in the order of their names until there is no room for one that is new.
FocusStep(edges, depth, limit, state) ==
    LET next == Head(state.queue)
        known == state.visited
        new == IF next[2] >= depth THEN {} ELSE {e[2] : e \in {x \in edges : x[1] = next[1]}} \ known
        room == limit - Cardinality(known)
        chosen == {p \in new : Cardinality({q \in new : q < p}) < room}
        places == [i \in 1..Cardinality(chosen) |->
                      <<CHOOSE p \in chosen : Cardinality({q \in chosen : q < p}) = i - 1,
                        next[2] + 1>>]
    IN  [visited |-> known \cup chosen, truncated |-> chosen # new,
         queue |-> IF chosen # new THEN <<>> ELSE Tail(state.queue) \o places]

\* The search, after a number of steps.
FocusStates(edges, depth, limit, target) ==
    LET after[n \in 0..Cardinality(Registered)] ==
            IF n = 0 THEN [visited |-> {target}, truncated |-> FALSE, queue |-> <<<<target, 0>>>>]
            ELSE IF after[n - 1].queue = <<>> THEN after[n - 1]
            ELSE FocusStep(edges, depth, limit, after[n - 1])
    IN  after

\* focus_dependents_subgraph_from_inputs; popularity counts rows, so that a
\* dependent of two rows counts twice.
FocusDependents(rows, system, target, others, depth, limit, default, by_count) ==
    LET edges == ReverseEdges(rows, system, others)
        end   == FocusStates(edges, depth, limit, target)[Cardinality(Registered)]
        count(p) == Cardinality({i \in DOMAIN rows : /\ Focused(rows[i], system, others)
                                                     /\ rows[i].name = p /\ rows[i].dependent # p})
    IN  [visited |-> end.visited, truncated |-> end.truncated,
         edges |-> {<<e[2], e[1]>> : e \in {x \in edges : x[1] \in end.visited /\ x[2] \in end.visited}},
         popularity |-> [p \in end.visited |->
                            IF by_count /\ count(p) > default THEN count(p) ELSE default]]

-----------------------------------------------------------------------------
(* Properties.                                                             *)

\* The packages at most n steps from a set, by edges.
Within(start, edges, n) ==
    LET reach[i \in 0..n] ==
            IF i = 0 THEN start
            ELSE reach[i - 1] \cup {e[2] : e \in {x \in edges : x[1] \in reach[i - 1]}}
    IN  reach[n]

\* Grown from a set, nearest first, until there is no room.
NearestFirst(grown, start, edges, depth, limit) ==
    /\ \/ grown = Within(start, edges, depth)
       \/ Cardinality(grown) = limit
    /\ \E n \in 0..depth : /\ n = 0 \/ Within(start, edges, n - 1) \subseteq grown
                           /\ grown \subseteq Within(start, edges, n)

\* However fetches fail and in which order they are answered, the packages that
\* are collected are those nearest to the seeds, by the dependencies that were
\* fetched: all within the depth, or as many as there may be, and none farther
\* away than one that was left out.
CollectsNearest ==
    ~collecting =>
        /\ NearestFirst(DOMAIN collected_packages, ToSet(SeedPackages), collected_edges,
                        MaxDepth, MaxPackages)
        /\ Cardinality(DOMAIN collected_packages) <= MaxPackages

=============================================================================
