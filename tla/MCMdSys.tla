------------------------------ MODULE MCMdSys -------------------------------
(* Small instances of MdSys for TLC. *)
EXTENDS MdSys, TLC

CONSTANTS t1, t2, k1, k2

\* Every client device sends its own commands, one at a time (the regulators,
\* each with its msys_device and the lock of the regulator core).
OwnKeys == (t1 :> {k1}) @@ (t2 :> {k2})

\* Both threads send through one device (ap_clk.c, one clk_msys).
SharedKeys == (t1 :> {k1}) @@ (t2 :> {k1, k2})

\* One client only.
OneClient == (t1 :> {k1, k2}) @@ (t2 :> {})

\* After boot, with a BP that answers in time and sends events.
Steady == [uses |-> OwnKeys, txCap |-> 2, rxCap |-> 2, booting |-> FALSE,
           slow |-> FALSE, off |-> FALSE, dbg |-> {FALSE}, fits |-> {TRUE},
           calls |-> 3, events |-> 2]

\* Across boot, with more events than there are slots.
Boot == [uses |-> OneClient, txCap |-> 1, rxCap |-> 2, booting |-> TRUE,
         slow |-> FALSE, off |-> FALSE, dbg |-> {FALSE}, fits |-> {TRUE},
         calls |-> 1, events |-> 4]

\* Everything a BP can fail to do, and two threads that share a command.
Hostile == [uses |-> SharedKeys, txCap |-> 1, rxCap |-> 1, booting |-> FALSE,
            slow |-> TRUE, off |-> TRUE, dbg |-> {TRUE, FALSE}, fits |-> {TRUE, FALSE},
            calls |-> 2, events |-> 0]

MCSettings == {Steady, Boot, Hostile}
=============================================================================
