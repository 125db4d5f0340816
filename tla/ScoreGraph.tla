----------------------------- MODULE ScoreGraph -----------------------------
(***************************************************************************)
(* The dependency graph of one ecosystem, as it is merged from score input *)
(* records (scoring.rs), kept in the store (store.rs) and cached from the  *)
(* file (priority.rs).  A record is a package with its popularity or an    *)
(* edge with its weight; where an edge was seen, and how sure, is left out.*)
(***************************************************************************)
EXTENDS Integers, Sequences, FiniteSets, SequencesExt

CONSTANTS
    Names,      \* package names as registries spell them, comparable by <
    Norm        \* Norm[name]: normalize_package_name

ASSUME NormIdempotent ==
    Norm \in [Names -> Names] /\ \A n \in Names : Norm[Norm[n]] = Norm[n]

PackageRecord(package, popularity) ==
    [kind |-> "package", package |-> package, popularity |-> popularity]
DependencyRecord(package, dependency, weight) ==
    [kind |-> "dependency", package |-> package, dependency |-> dependency, weight |-> weight]

NormalizedRecord(record) ==
    IF record.kind = "package"
    THEN [record EXCEPT !.package = Norm[@]]
    ELSE [record EXCEPT !.package = Norm[@], !.dependency = Norm[@]]

Larger(a, b) == IF a >= b THEN a ELSE b
Combined(how, a, b) == IF how = "sum" THEN a + b ELSE Larger(a, b)
NonNegative(n) == Larger(n, 0)

\* A graph: popularity by package, weight by edge.
EmptyGraph == [popularity |-> [p \in {} |-> 0], weight |-> [e \in {} |-> 0]]

WithKeys(f, keys) == [k \in DOMAIN f \cup keys |-> IF k \in DOMAIN f THEN f[k] ELSE 0]

\* How a record meets what the graph has is "strongest" or "sum".
\* A package record meets the node it names, an edge record the edge and, as
\* packages of popularity 0, both of its ends.
AddPackage(graph, record, how) ==
    [popularity |-> [WithKeys(graph.popularity, {record.package}) EXCEPT
                        ![record.package] = Combined(how, @, NonNegative(record.popularity))],
     weight |-> graph.weight]

AddDependency(graph, record, how) ==
    LET edge == <<record.package, record.dependency>>
    IN  [popularity |-> WithKeys(graph.popularity, {record.package, record.dependency}),
         weight |-> [WithKeys(graph.weight, {edge}) EXCEPT
                        ![edge] = Combined(how, @, NonNegative(record.weight))]]

AddRecord(graph, record, how) ==
    IF record.kind = "package" THEN AddPackage(graph, record, how)
    ELSE AddDependency(graph, record, how)

\* merge_score_input_ndjson keeps the strongest value of each ...
MergedGraph(records) ==
    FoldLeft(LAMBDA graph, record : AddRecord(graph, NormalizedRecord(record), "strongest"),
             EmptyGraph, records)

\* ... while scoring its own input adds repeated records up.
SummedGraph(records) ==
    FoldLeft(LAMBDA graph, record : AddRecord(graph, NormalizedRecord(record), "sum"),
             EmptyGraph, records)

\* The records a graph is written out as: one per package and edge.
GraphRecords(graph) ==
    {PackageRecord(p, graph.popularity[p]) : p \in DOMAIN graph.popularity} \cup
    {DependencyRecord(e[1], e[2], graph.weight[e]) : e \in DOMAIN graph.weight}

TouchedPackages(records) ==
    UNION {IF r.kind = "package" THEN {r.package} ELSE {r.package, r.dependency} :
           r \in records}

\* package_census_from_score_input and roots_from_score_input: the same set,
\* by normalized name.
RootsFromScoreInput(records) == {Norm[p] : p \in TouchedPackages(records)}

-----------------------------------------------------------------------------
(* The store's graph tables: records as they come, names not normalized.   *)

UpsertGraphRecord(graph, record) == AddRecord(graph, record, "strongest")

\* One record after the other.
StoredGraph(records) ==
    LET graph[n \in 0..Len(records)] ==
            IF n = 0 THEN EmptyGraph ELSE UpsertGraphRecord(graph[n - 1], records[n])
    IN  graph[Len(records)]

DependenciesOf(graph, package) == {e[2] : e \in {x \in DOMAIN graph.weight : x[1] = package}}
DependentsOf(graph, package) == {e[1] : e \in {x \in DOMAIN graph.weight : x[2] = package}}

PopularityOf(graph, package) ==
    IF package \in DOMAIN graph.popularity THEN graph.popularity[package] ELSE 0

\* load_graph_evidence, known or not.
Evidence(graph, package) ==
    LET dependencies == Cardinality(DependenciesOf(graph, package))
        dependents   == Cardinality(DependentsOf(graph, package))
    IN  [known |-> package \in DOMAIN graph.popularity \/ dependencies > 0 \/ dependents > 0,
         popularity |-> PopularityOf(graph, package),
         dependencies |-> dependencies,
         dependents |-> dependents]

\* The first n members of a set of names or of edges, in their order.
EdgeBefore(e1, e2) == e1[1] < e2[1] \/ (e1[1] = e2[1] /\ e1[2] < e2[2])
FirstNames(names, n) == {x \in names : Cardinality({y \in names : y < x}) < n}
FirstEdges(edges, n) == {x \in edges : Cardinality({y \in edges : EdgeBefore(y, x)}) < n}

Neighborhood(graph, package, limit) ==
    [dependencies |-> FirstNames(DependenciesOf(graph, package), limit),
     dependents   |-> FirstNames(DependentsOf(graph, package), limit)]

\* load_graph_records_for_roots, for as many roots and packages as one query
\* takes (900).  The limit is shared by all the roots, and then by the whole
\* frontier: what comes first in the alphabet is kept.
\* Mutant: only the roots' own edges are taken.
StoreRecordsOfRoots(graph, roots, limit) ==
    LET frontier == {r \in roots : Evidence(graph, r).known}
        edges    == {e \in DOMAIN graph.weight : e[1] \in frontier}
        packages == frontier \cup {e[2] : e \in edges}
    IN  {PackageRecord(p, PopularityOf(graph, p)) : p \in packages} \cup
        {DependencyRecord(e[1], e[2], graph.weight[e]) : e \in edges}

StoreRecordsForRoots(graph, roots, limit) ==
    LET incoming == FirstNames(UNION {DependentsOf(graph, r) : r \in roots},
                               Larger(limit * Cardinality(roots), 1))
        frontier == {r \in roots : Evidence(graph, r).known} \cup incoming
        edges    == FirstEdges({e \in DOMAIN graph.weight : e[1] \in frontier},
                               Larger(limit * Cardinality(frontier), 1))
        packages == frontier \cup {e[2] : e \in edges}
    IN  IF roots = {} \/ frontier = {} THEN {}
        ELSE {PackageRecord(p, PopularityOf(graph, p)) : p \in packages} \cup
             {DependencyRecord(e[1], e[2], graph.weight[e]) : e \in edges}

-----------------------------------------------------------------------------
(* The cache of the graph file, used when there is no store.               *)

LoadCache(records) ==
    LET normalized == {NormalizedRecord(records[i]) : i \in DOMAIN records}
        popular(p) == {r.popularity : r \in {x \in normalized :
                                                 x.kind = "package" /\ x.package = p}}
    IN  [known |-> TouchedPackages(normalized),
         edges |-> {<<r.package, r.dependency>> : r \in {x \in normalized :
                                                             x.kind = "dependency"}},
         popularity |-> [p \in TouchedPackages(normalized) |->
                            IF popular(p) = {} THEN 0
                            ELSE CHOOSE n \in popular(p) : \A m \in popular(p) : n >= m]]

CacheEvidence(cache, package) ==
    [known |-> package \in cache.known,
     popularity |-> IF package \in cache.known THEN cache.popularity[package] ELSE 0,
     dependencies |-> Cardinality({e \in cache.edges : e[1] = package}),
     dependents |-> Cardinality({e \in cache.edges : e[2] = package})]

\* load_cache_graph_records: no limit, and every edge weighs 1.
CacheRecordsForRoots(cache, roots) ==
    LET frontier == {r \in roots : r \in cache.known} \cup
                    {e[1] : e \in {x \in cache.edges : x[2] \in roots}}
        edges    == {e \in cache.edges : e[1] \in frontier}
        packages == frontier \cup {e[2] : e \in edges}
    IN  {PackageRecord(p, IF p \in cache.known THEN cache.popularity[p] ELSE 0) :
            p \in packages} \cup
        {DependencyRecord(e[1], e[2], 1) : e \in edges}

-----------------------------------------------------------------------------
(* What a look at a package shows.                                         *)

\* package_census_from_score_input
CensusOfRecords(records) ==
    {[package |-> p, discovered_at |-> 0, source |-> "graph_input"] :
        p \in RootsFromScoreInput(records)}

StoreInspection(graph, package, limit) ==
    [evidence |-> Evidence(graph, package), names |-> Neighborhood(graph, package, limit)]

CacheInspection(cache, package, limit) ==
    [evidence |-> CacheEvidence(cache, package),
     names |-> [dependencies |->
                    FirstNames({e[2] : e \in {x \in cache.edges : x[1] = package}}, limit),
                dependents |->
                    FirstNames({e[1] : e \in {x \in cache.edges : x[2] = package}}, limit)]]

\* inspect_local_graph, of a name in any spelling: `score` is what is known,
\* `local` what the graph at hand shows of each package.
InspectLocalGraph(local, score, census, name) ==
    [package |-> Norm[name], score |-> score,
     known_in_census |-> Norm[name] \in {r.package : r \in census},
     local |-> local[Norm[name]]]

=============================================================================
