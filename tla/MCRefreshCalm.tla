--------------------------- MODULE MCRefreshCalm ---------------------------
(* An instance of RefreshCalm for TLC: unattended runs with orphan cleanup,  *)
(* under a fence that leaves guest 2 outside.                                *)
EXTENDS RefreshCalm

CalmConfigs == {[remove_orphans |-> TRUE, fenced |-> TRUE, low |-> 1, high |-> 1,
                 dry_run |-> FALSE, may_power_off |-> TRUE]}
=============================================================================
