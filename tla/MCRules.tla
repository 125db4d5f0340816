------------------------------- MODULE MCRules --------------------------------
(***************************************************************************)
(* The rules, for TLC: what they are applied to, and what must hold of     *)
(* their results.                                                          *)
(***************************************************************************)
EXTENDS PriorityPolicy, Scoring

VARIABLE input

\* Name 4 is another spelling of name 1; names 2 and 3 are of one npm scope.
MCNorm == [n \in Names |-> IF n = 4 THEN 1 ELSE n]
MCNamespace == [n \in Names |-> IF n \in {2, 3} THEN "scope" ELSE "none"]

-----------------------------------------------------------------------------
(* Inputs of the rules.                                                    *)

ScoreInputs ==
    {PackageRecord(p, n) : p \in Names, n \in {0, 3}} \cup
    {DependencyRecord(e[1], e[2], w) : e \in {<<1, 2>>, <<2, 1>>, <<3, 2>>, <<4, 3>>, <<3, 3>>},
                                       w \in {1, 2}}

GraphInputs == {[part |-> "graph", records |-> r] : r \in [1..3 -> ScoreInputs]}

RankedSnapshots ==
    {Snapshot(t, s, n, n) : t \in {"low", "high"},
                            s \in {"local_graph", "deps_dev_dependents_api", "offline_score_file"},
                            n \in {0, 2}}

UpdateInputs ==
    {[part |-> "scores", updates |-> u] :
        u \in [1..3 -> [package : {1}, record : RankedSnapshots] \cup
                       [package : {2}, record : {KnownPackageStub}]]}

Inputs == GraphInputs \cup UpdateInputs
NoInput == [part |-> "none"]

-----------------------------------------------------------------------------
(* Merged score records: the strongest record of each package is kept.     *)

NoRecords == [p \in {} |-> 0]

Rank(record) == 3 * SourceRank[record.source] + TierRank[record.tier]

\* What the services may tell of a package, with each of their failures.
OnlineAnswers ==
    LET told == {[found |-> f, total |-> t, direct |-> d] :
                    f \in BOOLEAN, t \in {{}, {0}, {200}}, d \in {{}, {7}}}
        of_deps_dev ==
            {DepsDevFallback([found |-> f, versions |-> v], [i \in 1..2 |-> answer], <<>>) :
                f \in BOOLEAN, answer \in told,
                v \in {<<>>, [i \in 1..2 |-> [default |-> FALSE, published |-> i]]}}
        of_ecosystems ==
            {EcosystemsFallback([found |-> f, packages |-> n, repositories |-> r],
                                [status |-> status, count |-> {90}], <<>>) :
                f \in BOOLEAN, n \in {{}, {20}}, r \in {{}, {150}},
                status \in {"ok", "refused", "broken"}}
    IN  {OnlineSnapshot(d, e) : d \in of_deps_dev, e \in of_ecosystems}

RecordLine(update) == [line |-> "record", package |-> update.package, record |-> update.record]
EmptyFile == [exists |-> TRUE, lines |-> <<[line |-> "blank"]>>]

\* Wherever score records meet -- the file, the store's rows that are exported
\* into it, the lines an expansion adds -- no order of the updates lets a
\* package end with a weaker source or tier than one of its records has; and
\* a package that is being resolved meanwhile, from the local graph, the census
\* or the services, is not remembered as weaker than those records either.
MergeKeepsStrongest ==
    input.part = "scores" =>
        LET merged == MergeScoreRecords(NoRecords, input.updates)
            lines == [i \in DOMAIN input.updates |-> RecordLine(input.updates[i])]
            file == FoldLeft(LAMBDA f, line : UpsertScoreRecords(f, <<line>>), EmptyFile, lines)
            exported == RecordsOfLines(LoadScoreRecords(ExportScoreRecords(file, lines))[1])
            known == IF 1 \in DOMAIN merged THEN <<merged[1]>> ELSE <<>>
            local == SnapshotFromValues(1, 1, <<>>)
            resolved == {ResolveForEvent(<<>>, l, c, o, known, 1, 2).snapshot :
                            l \in {<<>>, <<local>>}, c \in BOOLEAN, o \in OnlineAnswers}
                        \cup {ResolveObservedRelease(<<>>, <<>>, c, known, 1, 2).snapshot :
                                  c \in BOOLEAN}
        IN  /\ \A i \in DOMAIN input.updates :
                   LET p == input.updates[i].package
                   IN  /\ Rank(merged[p]) >= Rank(input.updates[i].record)
                       /\ Rank(exported[p]) >= Rank(input.updates[i].record)
            /\ RecordsOfLines(LoadScoreRecords(file)[1]) = merged
            /\ \A snapshot \in resolved :
                   /\ snapshot.source # "default_unknown"
                   /\ known # <<>> => Rank(snapshot) >= Rank(known[1])

-----------------------------------------------------------------------------
(* The graph.                                                              *)

Normalized(records) == \A i \in DOMAIN records : NormalizedRecord(records[i]) = records[i]

Room == 100     \* a limit no neighbourhood of the inputs reaches

\* With the names in normal form, a package's evidence, the neighbours a look
\* at it shows under any limit, and the records its scores are computed from are
\* the same whether they come from the store's tables or from the graph file --
\* but for the weights, which the file's cache forgets, and unless the store's
\* limit cuts the neighbourhood; and the census written from the same records
\* has every package that either of them knows.
StoreAgreesWithFile ==
    input.part = "graph" /\ Normalized(input.records) =>
        LET stored_graph == StoredGraph(input.records)
            cached       == LoadCache(input.records)
            unweighted(records) == {[r EXCEPT !.weight = 1] : r \in {x \in records : x.kind = "dependency"}}
                                   \cup {x \in records : x.kind = "package"}
            census == CensusOfRecords(ToSet(input.records))
            in_store(limit) == [p \in Names |-> StoreInspection(stored_graph, p, limit)]
            in_file(limit) == [p \in Names |-> CacheInspection(cached, p, limit)]
        IN  \A p \in Names :
                /\ \A limit \in 0..2 :
                       InspectLocalGraph(in_store(limit), 0, census, p)
                           = InspectLocalGraph(in_file(limit), 0, census, p)
                /\ Evidence(stored_graph, p).known <=> \E r \in census : r.package = p
                /\ \A q \in Names :
                       unweighted(StoreRecordsForRoots(stored_graph, {p, q}, Room))
                           = CacheRecordsForRoots(cached, {p, q})

ScoreConfig == [alpha |-> <<1, 2>>, max_iterations |-> 4, epsilon |-> 0, high |-> 90, medium |-> 50]
Unit == 120     \* popularity in units, so that its shares are whole

Scaled(graph) == [graph EXCEPT !.popularity = [p \in DOMAIN @ |-> Unit * @[p]]]

\* Propagation hands on a share of what it has: however the edges run, in
\* circles too, the impact of all packages is at most their popularity over
\* 1 - alpha, and a record that comes twice makes no package more important
\* once the input has been merged.
ImpactBounded ==
    input.part = "graph" =>
        LET graph_of(records) == Scaled(MergedGraph(records))
            once   == ScoreEcosystem("npm", graph_of(input.records), ScoreConfig)
            twice  == ScoreEcosystem("npm", graph_of(input.records \o input.records), ScoreConfig)
            direct == graph_of(input.records).popularity
            total(f) == MapThenSumSet(LAMBDA p : f[p], DOMAIN f)
        IN  /\ (ScoreConfig.alpha[2] - ScoreConfig.alpha[1])
                   * total([p \in DOMAIN once |-> once[p].impact])
                   <= ScoreConfig.alpha[2] * total(direct)
            /\ once = twice

=============================================================================
