----------------------------- MODULE MCSaQuery ------------------------------
EXTENDS SaQuery, TLC

Budget(faults, strays, drops, oom) ==
    [faults |-> faults, strays |-> strays, drops |-> drops, oom |-> oom]

MCBudgets == {Budget(1, 3, 0, 0), Budget(1, 1, 1, 0), Budget(0, 2, 0, 1)}
=============================================================================
