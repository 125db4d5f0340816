------------------------------ MODULE MCServices ------------------------------
(***************************************************************************)
(* Instances, for TLC, of the components that run beside the pipeline and  *)
(* of the rules it applies.  A behaviour runs one of them, `part`; the     *)
(* others rest.  The rules are evaluated on every input of Inputs.         *)
(***************************************************************************)
EXTENDS MCHistory, BoundedMap, PriorityResolver, PackageCensus, RequestThrottle, NpmSource,
        CratesIoSource, RepoProvenance, GraphCollector, DataDirectory

VARIABLE part

serviceVars ==
    <<part, input, vars, priorityVars, censusVars, throttleVars, npmVars, cratesVars,
      provenanceVars, collectorVars, dataVars>>

-----------------------------------------------------------------------------
(* Constants.                                                              *)

\* A release of package 1 depends on package 2.
MCTouches == [p \in Tracked |-> IF p = 1 THEN {1, 2} ELSE {2}]
MCTierOf == [n \in 0..MaxSeen |-> IF n >= 2 THEN "medium" ELSE "low"]
NoOfflineTier == [p \in Tracked |-> "none"]

MCUrl(host) == [host |-> host, repo |-> {1}]
Named(ecosystem, version, host, commit) ==
    [ecosystem |-> ecosystem, version |-> version, urls |-> [l \in {"Code", "Home"} |-> MCUrl(host)],
     home |-> {}, repository |-> {MCUrl(host)}, commit |-> commit]

\* One of them is read from an npm archive.
MCCheckedReleases ==
    {Named("crates", 2, "github.com", {7}), Named("pypi", 1, "gitlab.com", {})} \cup
    LocalRelease("npm", [suffix |-> "tgz", entries |-> <<[name |-> "package.json",
                             metadata |-> Named("npm", 1, "github.com", {})]>>], {})
MCPushed == {<<1, "v">>, <<2, "plain">>}

\* A release that is captured at once, and one that triage may drop.
MCEventOf ==
    [id \in {1, 2} |-> Seen(id, 1, 1, id, 2, 3, "none", IF id = 1 THEN "high" ELSE "low")]
MCCaptureOf ==
    [id \in {1, 2} |-> [status |-> "active", artifacts |-> <<>>, details |-> <<>>,
                        stored |-> "no", at |-> 4]]
MCLegacy == <<MCEventOf[2]>>

\* Graphs of five packages, with cycles and with more than one way to a package.
MCEdges == {<<1, 2>>, <<1, 3>>, <<2, 3>>, <<3, 4>>, <<2, 5>>, <<3, 5>>, <<4, 1>>}
GraphOf(edges) == [p \in Registered |-> {e[2] : e \in {x \in edges : x[1] = p}}]
MCRequirements == {GraphOf(s) : s \in SUBSET MCEdges}
NoGraph == GraphOf({})
MCSeedPackages == <<1, 1>>
MCSeedPopularity == [p \in {1, 3} |-> 5]

-----------------------------------------------------------------------------
(* A focus on a package, in an export that has rows of all sorts.          *)

RowOf(name, dependent, depth, highest) ==
    [system |-> "npm", name |-> name, dependent_system |-> "npm", dependent |-> dependent,
     depth |-> depth, highest |-> highest]

FocusInputs ==
    {[part |-> "focus", rows |-> SetToSeq({RowOf(e[2], e[1], 1, "none") : e \in s}) \o more,
      depth |-> d, limit |-> n] :
        s \in SUBSET MCEdges, d \in 0..2, n \in 1..4,
        more \in {<<>>, <<RowOf(5, 4, 2, "none"), RowOf(5, 4, 1, "no"), RowOf(5, 5, 1, "yes")>>}}

\* The packages that are collected are those nearest to the seeds, by what was
\* fetched and in whatever order; those of a focus are the nearest dependents,
\* and their edges join them; an import of the same rows has all of them.
GrowsNearestFirst ==
    /\ CollectsNearest
    /\ input.part = "focus" =>
           LET focus == FocusDependents(input.rows, "npm", 5, FALSE, input.depth, input.limit, 0, TRUE)
               whole == ImportDependents(input.rows, FALSE, FALSE, 0, TRUE)
           IN  /\ NearestFirst(focus.visited, {5}, ReverseEdges(input.rows, "npm", FALSE),
                               input.depth, input.limit)
               /\ focus.truncated => Cardinality(focus.visited) = input.limit
               /\ focus.edges = {<<e[2], e[3]>> : e \in {x \in whole.edges :
                                     x[2] \in focus.visited /\ x[3] \in focus.visited}}

-----------------------------------------------------------------------------

Parts == {"cache", "resolver", "census", "throttle", "npm", "crates", "parity", "collector",
          "data", "rules"}

MCInit ==
    /\ \/ part \in Parts \ {"rules"} /\ input = NoInput
       \/ /\ part = "rules"
          /\ input \in Inputs \/ input \in JudgementInputs \/ input \in HistoryInputs
             \/ input \in FocusInputs
    /\ IF part = "crates" THEN TRUE ELSE index_head = 0
    /\ IF part = "collector" THEN CollectorInit ELSE registry_graph = NoGraph /\ CollectorStart
    /\ Init /\ PriorityInit /\ CensusInit /\ ThrottleInit /\ NpmInit /\ CratesInit
    /\ ProvenanceInit /\ DataInit

MCNext ==
    /\ UNCHANGED <<part, input>>
    /\ \/ /\ part = "cache" /\ Next
          /\ UNCHANGED <<priorityVars, censusVars, throttleVars, npmVars, cratesVars,
                         provenanceVars, collectorVars, dataVars>>
       \/ /\ part = "resolver" /\ PriorityNext
          /\ UNCHANGED <<vars, censusVars, throttleVars, npmVars, cratesVars,
                         provenanceVars, collectorVars, dataVars>>
       \/ /\ part = "census" /\ CensusNext
          /\ UNCHANGED <<vars, priorityVars, throttleVars, npmVars, cratesVars,
                         provenanceVars, collectorVars, dataVars>>
       \/ /\ part = "throttle" /\ ThrottleNext
          /\ UNCHANGED <<vars, priorityVars, censusVars, npmVars, cratesVars,
                         provenanceVars, collectorVars, dataVars>>
       \/ /\ part = "npm" /\ NpmNext
          /\ UNCHANGED <<vars, priorityVars, censusVars, throttleVars, cratesVars,
                         provenanceVars, collectorVars, dataVars>>
       \/ /\ part = "crates" /\ CratesNext
          /\ UNCHANGED <<vars, priorityVars, censusVars, throttleVars, npmVars,
                         provenanceVars, collectorVars, dataVars>>
       \/ /\ part = "parity" /\ ProvenanceNext
          /\ UNCHANGED <<vars, priorityVars, censusVars, throttleVars, npmVars,
                         cratesVars, collectorVars, dataVars>>
       \/ /\ part = "collector" /\ CollectorNext
          /\ UNCHANGED <<vars, priorityVars, censusVars, throttleVars, npmVars,
                         cratesVars, provenanceVars, dataVars>>
       \/ /\ part = "data" /\ DataNext
          /\ UNCHANGED <<vars, priorityVars, censusVars, throttleVars, npmVars,
                         cratesVars, provenanceVars, collectorVars>>

MCSpec == MCInit /\ [][MCNext]_serviceVars

=============================================================================
