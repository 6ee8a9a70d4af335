----------------------------- MODULE MCWlandSme ------------------------------
(* Small instances of WlandSme for TLC. *)
EXTENDS WlandSme

Nothing == [what \in {"scans", "connects", "stops", "removals", "drops", "finds", "failures"} |-> 0]

\* Scans with failures, removals and stops of the interface.
Scanning == [Nothing EXCEPT !.scans = 2, !.stops = 1, !.failures = 1, !.removals = 1]

\* A scan and a connection attempt against a stop or a suspend.
Mixing == [Nothing EXCEPT !.scans = 1, !.connects = 1, !.stops = 1, !.failures = 1]

\* A connection to a network a scan found, or no longer finds.
Finding == [Nothing EXCEPT !.scans = 1, !.connects = 1, !.finds = 1]

\* Two connections, the first of which may break or be given up.
Connecting == [Nothing EXCEPT !.connects = 2, !.drops = 1]

MCBudgets == {Scanning, Mixing, Finding, Connecting}
SsidBudgets == {Connecting}
BusyBudgets == {Scanning}
=============================================================================
