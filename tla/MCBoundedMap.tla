---------------------------- MODULE MCBoundedMap ----------------------------
(***************************************************************************)
(* A workload on which TLC checks BoundedMap: the cache of a hot entry.    *)
(***************************************************************************)
EXTENDS BoundedMap

CONSTANT HotKey   \* the one key the hot-key workload keeps using

\* One hot entry is read again and again while other keys come and go; no
\* caller removes an entry.
HotKeyNext == Refresh(HotKey) \/ \E k \in Keys : InsertNew(k)

HotKeySpec == Init /\ [][HotKeyNext]_vars

=============================================================================
