--------------------------- MODULE MCStoreWriter ----------------------------
(***************************************************************************)
(* A small instance of StoreWriter: the observer of releases, the import   *)
(* of their history, and a worker, write to two releases.                  *)
(***************************************************************************)
EXTENDS StoreWriter

CONSTANTS observer, importer, worker_task, r1, r2

Ask(op, release, origin, tier) ==
    [op |-> op, release |-> release, origin |-> origin, tier |-> tier]

SmallCommands ==
    [c \in Clients |->
        CASE c = observer -> {Ask("record_event", r1, "observed", "high"),
                              Ask("record_event", r2, "observed", "low")}
          [] c = importer -> {Ask("record_event", r1, "reconstructed", "low"),
                              Ask("record_capture", r1, "reconstructed", "low")}
          [] c = worker_task ->
                {Ask("record_event", r1, "observed", "medium")}
                \cup {Ask(op, r1, "observed", "high") : op \in
                        {"record_capture", "skip_capture", "fail_capture",
                         "record_diff", "skip_diff", "fail_diff"}}]

=============================================================================
