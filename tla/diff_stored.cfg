SPECIFICATION StoredSpec
CONSTANTS
    Names = {1, 2, 3, 4}
    Norm <- MCNorm
    Namespace <- MCNamespace
    FarmMinDependents = 2
    FarmMaxPopularity = 360
    Capability <- MCCapability
    KnownCores <- MCKnownCores
    Rules <- MCRuleset
INVARIANT StoredCopyStands
\* An input is a state of its own.
CHECK_DEADLOCK FALSE
