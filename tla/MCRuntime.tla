----------------------------- MODULE MCRuntime ------------------------------
(***************************************************************************)
(* Instances of Runtime for TLC: the events its sources may send.          *)
(***************************************************************************)
EXTENDS Runtime, TLC

CONSTANTS r1, r2

Ev(r, tier, graph) == [release |-> r, tier |-> tier, graph |-> graph]

\* One release of high priority, and one that goes through triage and wants a
\* diff for its place in the graph.
HighAndMedium == {Ev(r1, "high", FALSE), Ev(r2, "medium", TRUE)}

\* The second one may instead be of low priority, left to the audit.
HighAndOther == HighAndMedium \cup {Ev(r2, "low", FALSE)}

\* One release, whose tier and place in the graph change between observations.
OneRelease == {Ev(r1, t, g) : t \in Tiers, g \in BOOLEAN}

=============================================================================
