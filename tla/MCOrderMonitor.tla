--------------------------- MODULE MCOrderMonitor ---------------------------
(* Small instances of OrderMonitor for TLC. *)
EXTENDS OrderMonitor

TwoStatuses == <<"preparing", "ready">>

=============================================================================
