------------------------------ MODULE Scoring -------------------------------
(***************************************************************************)
(* Offline scoring of one ecosystem (scoring.rs): popularity flows along   *)
(* dependency edges, and packages are ranked by what reaches them.  Values *)
(* are integers, in a unit the caller chooses; divisions round down.       *)
(* config: [alpha: <<num, den>>, max_iterations, epsilon, high, medium],   *)
(* the quantiles in percent.                                               *)
(***************************************************************************)
EXTENDS ScoreGraph, FiniteSetsExt

CONSTANTS
    Namespace,          \* Namespace[name]: the npm scope of a name, or "none"
    FarmMinDependents,  \* NPM_NAMESPACE_FARM_MIN_REVERSE_DEPENDENTS, 25
    FarmMaxPopularity   \* NPM_NAMESPACE_FARM_MAX_DIRECT_POPULARITY, 200

Packages(graph) == DOMAIN graph.popularity

ValidConfig(config) ==
    /\ 0 <= config.alpha[1] /\ config.alpha[1] < config.alpha[2]
    /\ config.max_iterations > 0
    /\ config.epsilon >= 0
    /\ 0 <= config.medium /\ config.medium <= config.high /\ config.high <= 100

TotalWeight(graph, package) ==
    MapThenSumSet(LAMBDA d : graph.weight[<<package, d>>], DependenciesOf(graph, package))

\* What a package passes on to one of its dependencies.
\* Mutant: to each of them, whatever the others get.
ContributionUnshared(graph, impact, alpha, package, dependency) ==
    (alpha[1] * impact[package] * graph.weight[<<package, dependency>>]) \div alpha[2]

Contribution(graph, impact, alpha, package, dependency) ==
    LET total == TotalWeight(graph, package)
    IN  IF impact[package] <= 0 \/ total <= 0 THEN 0
        ELSE (alpha[1] * impact[package] * graph.weight[<<package, dependency>>])
                 \div (alpha[2] * total)

Propagate(graph, impact, alpha) ==
    [p \in Packages(graph) |->
        graph.popularity[p] +
        MapThenSumSet(LAMBDA d : Contribution(graph, impact, alpha, d, p),
                      DependentsOf(graph, p))]

MaxDelta(next, impact) ==
    Max({0} \cup {IF next[p] >= impact[p] THEN next[p] - impact[p] ELSE impact[p] - next[p] :
                  p \in DOMAIN next})

\* Rounds of propagation until the change is at most epsilon.
PropagatedImpact(graph, config) ==
    LET round[n \in 0..config.max_iterations] ==
            IF n = 0 THEN [impact |-> graph.popularity, settled |-> FALSE]
            ELSE IF round[n - 1].settled THEN round[n - 1]
            ELSE LET next == Propagate(graph, round[n - 1].impact, config.alpha)
                 IN  [impact |-> next,
                      settled |-> MaxDelta(next, round[n - 1].impact) <= config.epsilon]
    IN  round[config.max_iterations].impact

\* How many dependents the largest npm scope among them has.
DominantScope(dependents) ==
    LET scopes == {Namespace[d] : d \in dependents} \ {"none"}
        size(s) == Cardinality({d \in dependents : Namespace[d] = s})
    IN  IF scopes = {} THEN 0 ELSE Max({size(s) : s \in scopes})

\* A little-used package that one scope depends on many times: what reaches it
\* is scaled by (popularity share) * (share of other scopes / 0.3), between
\* 1/50 and 1.
Guardrail(ecosystem, graph, impact) ==
    [p \in Packages(graph) |->
        LET dependents == DependentsOf(graph, p)
            count    == Cardinality(dependents)
            dominant == DominantScope(dependents)
            popular  == graph.popularity[p]
            num      == popular * (count - dominant) * 10
            den      == FarmMaxPopularity * count * 3
        IN  IF \/ ecosystem # "npm" \/ popular > FarmMaxPopularity
               \/ count < FarmMinDependents \/ count = 0
               \/ dominant = 0 \/ 10 * dominant < 7 * count
            THEN impact[p]
            ELSE IF 50 * num < den THEN impact[p] \div 50
            ELSE IF num >= den THEN impact[p]
            ELSE (impact[p] * num) \div den]

TopBucketSize(total, percent) ==
    IF total = 0 THEN 0
    ELSE IF percent >= 100 THEN 1
    ELSE total - (total * percent) \div 100

\* Ranks from 0, descending, ties by name.
ImpactRank(impact, package) ==
    Cardinality({p \in DOMAIN impact :
        impact[p] > impact[package] \/ (impact[p] = impact[package] /\ p < package)})

\* Hidden leverage, ln((impact + 1) / (popularity + 1)) and at least 0, as a ratio.
HiddenLeverage(graph, impact, package) ==
    <<Larger(impact[package], graph.popularity[package]) + 1, graph.popularity[package] + 1>>

HiddenRank(graph, impact, package) ==
    LET ratio(p) == HiddenLeverage(graph, impact, p)
        cross(p, q) == ratio(p)[1] * ratio(q)[2]
    IN  Cardinality({p \in DOMAIN impact :
            \/ cross(p, package) > cross(package, p)
            \/ cross(p, package) = cross(package, p) /\ p < package})

ScoreTier(graph, impact, config, package) ==
    LET total  == Cardinality(Packages(graph))
        within(percent) ==
            \/ ImpactRank(impact, package) < TopBucketSize(total, percent)
            \/ HiddenRank(graph, impact, package) < TopBucketSize(total, percent)
    IN  IF within(config.high) THEN "high"
        ELSE IF within(config.medium) THEN "medium" ELSE "low"

ScoreEcosystem(ecosystem, graph, config) ==
    LET impact == Guardrail(ecosystem, graph, PropagatedImpact(graph, config))
    IN  [p \in Packages(graph) |->
            [tier |-> ScoreTier(graph, impact, config, p), impact |-> impact[p]]]

=============================================================================
