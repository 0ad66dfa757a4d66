SPECIFICATION MCSpec
CONSTANTS
    Main = main
    WorkerIds = {w1}
    Sabs = {s1}
    None = none
    MaxOps = 6
    Agents = {t1, t2, t3}
    Cells = {x, y}
    MaxStores = 1
    i2 = i2
    g2 = g2
    TimerIds = {i1, i2}
    Fds = {f1}
    Signals = {g1, g2}
    MaxDelay = 1
INVARIANTS
  DeliveriesExact
  WaitsExact
PROPERTIES
  EventsHandled
CHECK_DEADLOCK FALSE
