\* Three tasks, two gates, a lost session.
SPECIFICATION FairSpec
CONSTANTS
    t1 = t1
    t2 = t2
    t3 = t3
    rA = rA
    g1 = g1
    g2 = g2
    Tasks = {t1, t2, t3}
    Managed = {t2}
    Routes = {rA}
    Gates = {g1, g2}
    RouteOf <- MCRouteOf
    GateOf <- MCTwoGates
    NoTask = NoTask
    MaxToken = 2
    MaxGeneration = 1
INVARIANTS
    ForeignGrantNeedsGap
PROPERTIES
    LossNoticed
    WaitEndsInSession
CHECK_DEADLOCK FALSE
