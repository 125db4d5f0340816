---------------------------- MODULE PackageCensus -----------------------------
(***************************************************************************)
(* The package census of the priority resolver (priority.rs): a file that  *)
(* grows, and a copy of it in memory that is compared with the file's      *)
(* modification time when it is older than the refresh interval.  Lookups  *)
(* of several tasks overlap: the lock is not held across the file's reads. *)
(* Time is counted in ticks of the file system's clock.                    *)
(***************************************************************************)
EXTENDS Integers, FiniteSets

CONSTANTS
    Listed,             \* packages that may be in the census
    Inquirers,          \* tasks that look packages up
    RefreshInterval,    \* PACKAGE_CENSUS_REFRESH_INTERVAL
    LastTick            \* bound on the clock

ASSUME CensusAssumption ==
    /\ IsFiniteSet(Listed) /\ IsFiniteSet(Inquirers)
    /\ RefreshInterval \in Nat \ {0} /\ LastTick \in Nat

Ticks == 0..LastTick
NotListed == LastTick + 1
NoCopy == [modified_at |-> -1, packages |-> {}, checked_at |-> 0, verified |-> 0]

VARIABLES
    census_clock,
    listed_since,   \* listed_since[p]: when p was appended to the file, or NotListed
    census_copy,    \* PackageCensusCache; verified is history: when the stat was
                    \* taken that it was last found to agree with
    lookups         \* lookups[i]: what i is doing

censusVars == <<census_clock, listed_since, census_copy, lookups>>

Idle == [pc |-> "idle"]
InFile == {p \in Listed : listed_since[p] # NotListed}

\* The modification time: that of the last append (0: the file as it was found).
ModifiedAt ==
    IF InFile = {} THEN 0
    ELSE CHOOSE t \in {listed_since[p] : p \in InFile} :
             \A q \in InFile : listed_since[q] <= t

CensusInit ==
    /\ census_clock = 0
    /\ listed_since = [p \in Listed |-> NotListed]
    /\ census_copy = NoCopy
    /\ lookups = [i \in Inquirers |-> Idle]

CensusTick ==
    /\ census_clock < LastTick
    /\ census_clock' = census_clock + 1
    /\ UNCHANGED <<listed_since, census_copy, lookups>>

\* Any process, or another task of this one, appends a package to the file.
ListPackage(p) ==
    /\ listed_since[p] = NotListed
    /\ listed_since' = [listed_since EXCEPT ![p] = census_clock]
    /\ UNCHANGED <<census_clock, census_copy, lookups>>

Answered(i) == lookups' = [lookups EXCEPT ![i] = Idle]

\* contains, of any package: the copy answers while it is fresh ...
Fresh == census_copy # NoCopy /\ census_clock - census_copy.checked_at < RefreshInterval

LookUp(i) ==
    /\ lookups[i] = Idle
    /\ IF Fresh
       THEN Answered(i)
       ELSE lookups' = [lookups EXCEPT ![i] =
                   [pc |-> "compare", modified_at |-> ModifiedAt, began |-> census_clock]]
    /\ UNCHANGED <<census_clock, listed_since, census_copy>>

\* ... or when the file has not changed since it was read ...
\* Mutant: whenever there is a copy.
CompareWithAnything(i) ==
    /\ lookups[i].pc = "compare"
    /\ IF census_copy # NoCopy
       THEN /\ census_copy' = [census_copy EXCEPT !.checked_at = census_clock,
                                                  !.verified = lookups[i].began]
            /\ Answered(i)
       ELSE /\ lookups' = [lookups EXCEPT ![i].pc = "read"]
            /\ UNCHANGED <<census_copy>>
    /\ UNCHANGED <<census_clock, listed_since>>

Compare(i) ==
    /\ lookups[i].pc = "compare"
    /\ IF census_copy # NoCopy /\ census_copy.modified_at = lookups[i].modified_at
       THEN /\ census_copy' = [census_copy EXCEPT !.checked_at = census_clock,
                                                  !.verified = lookups[i].began]
            /\ Answered(i)
       ELSE /\ lookups' = [lookups EXCEPT ![i].pc = "read"]
            /\ UNCHANGED <<census_copy>>
    /\ UNCHANGED <<census_clock, listed_since>>

\* ... else the file is read; when that fails the package counts as unknown.
ReadFile(i) ==
    /\ lookups[i].pc = "read"
    /\ \/ lookups' = [lookups EXCEPT ![i] =
              [pc |-> "install", modified_at |-> @.modified_at, began |-> @.began,
               packages |-> InFile]]
       \/ Answered(i)
    /\ UNCHANGED <<census_clock, listed_since, census_copy>>

\* The copy is replaced, by an older one perhaps, and what was only remembered
\* in it is gone.
InstallCopy(i) ==
    /\ lookups[i].pc = "install"
    /\ census_copy' = [modified_at |-> lookups[i].modified_at, packages |-> lookups[i].packages,
                       checked_at |-> census_clock, verified |-> lookups[i].began]
    /\ Answered(i)
    /\ UNCHANGED <<census_clock, listed_since>>

\* remember, remember_records: into the copy only, which then counts as checked.
RememberPackages(packages) ==
    /\ census_copy # NoCopy
    /\ packages # {}
    /\ census_copy' = [census_copy EXCEPT !.packages = @ \cup packages,
                                          !.checked_at = census_clock]
    /\ UNCHANGED <<census_clock, listed_since, lookups>>

CensusNext ==
    \/ CensusTick
    \/ \E p \in Listed : ListPackage(p) \/ RememberPackages({p})
    \/ \E i \in Inquirers : LookUp(i) \/ Compare(i) \/ ReadFile(i) \/ InstallCopy(i)

CensusSpec == CensusInit /\ [][CensusNext]_censusVars

-----------------------------------------------------------------------------

\* A copy that answers by itself knows every package in the file, save those
\* appended after the stat with which it was last found to agree (or in the very
\* tick of its modification time).  Those have been there for less than the
\* interval and the time since that stat at which the copy last counted as
\* checked: what is remembered makes a copy look checked, so that a steady
\* stream of new packages keeps the file from ever being read.
MissIsRecent ==
    Fresh => \A p \in InFile \ census_copy.packages :
        \/ listed_since[p] = census_copy.modified_at
        \/ /\ listed_since[p] >= census_copy.verified
           /\ census_clock - listed_since[p]
                  < RefreshInterval + (census_copy.checked_at - census_copy.verified)

=============================================================================
