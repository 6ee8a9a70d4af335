----------------------------- MODULE ComboPower -----------------------------
(***************************************************************************)
(* Powering WLAN and Bluetooth on and off in the combo chip                *)
(* (rda_combo_power_main.c, rda_5991_power_ctrl.c).  The completion        *)
(* rda_wifi_bt_comp is one token, there from the start, that a power on    *)
(* takes and gives back.                                                   *)
(***************************************************************************)
EXTENDS Naturals

CONSTANT Users                  \* WLAN and Bluetooth

Supplies == {"regulator", "32k", "26m"}

VARIABLES
    comp,       \* rda_wifi_bt_comp
    pc,         \* where the power on of a user is
    votes       \* regulator_mask, clock_mask_32k, clock_mask_26m

vars == <<comp, pc, votes>>

Init ==
    /\ comp = 1
    /\ pc = [u \in Users |-> "idle"]
    /\ votes = [s \in Supplies |-> {}]

Goes(u, from, to) == pc[u] = from /\ pc' = [pc EXCEPT ![u] = to]

Enable(u) == votes' = [s \in Supplies |-> votes[s] \cup {u}]
Disable(u, S) == votes' = [s \in Supplies |-> IF s \in S THEN votes[s] \ {u} ELSE votes[s]]

PowerOn(u) == Goes(u, "idle", "waiting") /\ UNCHANGED <<comp, votes>>

PowerOnTurn(u) ==
    /\ Goes(u, "waiting", "writing")
    /\ comp > 0 /\ comp' = comp - 1
    /\ Enable(u)

\* All register writes went well: the radio settles for a while.
PowerOnWritten(u) == Goes(u, "writing", "settling") /\ UNCHANGED <<comp, votes>>
PowerOnEnds(u) ==
    /\ Goes(u, "settling", "idle")
    /\ Disable(u, {"26m"})
    /\ comp' = comp + 1

\* A write over I2C failed.
PowerOnFails(u) ==
    /\ Goes(u, "writing", "idle")
    /\ Disable(u, Supplies)
    /\ UNCHANGED comp

\* Does not wait, whatever the others do.
PowerOff(u) ==
    /\ pc[u] = "idle"
    /\ Disable(u, Supplies)
    /\ UNCHANGED <<comp, pc>>

Next == \E u \in Users :
    \/ PowerOn(u) \/ PowerOnTurn(u) \/ PowerOnWritten(u) \/ PowerOnEnds(u)
    \/ PowerOnFails(u) \/ PowerOff(u)

Spec == Init /\ [][Next]_vars

-----------------------------------------------------------------------------
\* Who waits for rda_wifi_bt_comp waits for somebody who is powering on, as
\* rda_5991_power_ctrl.c:387 and :500 say, and not for a call that is over.
WaitsForSomebody ==
    (\E u \in Users : pc[u] = "waiting") =>
        comp > 0 \/ \E v \in Users : pc[v] \in {"writing", "settling"}
=============================================================================
