CONSTANTS
    app1 = app1  app2 = app2
    App = {app1, app2}
    Proc = Proc
    NoThread = NoThread
    MaxCalls = 1
    MaxEvents = 1
SPECIFICATION FairSpec
CHECK_DEADLOCK FALSE
INVARIANTS
    LockIsHeldInside
    EventsAreConserved
PROPERTIES
    EventsAreDelivered
    StopReturns
