\* Subscriptions, emissions and changes of mode in any order.
CONSTANTS
    h1 = h1
    h2 = h2
    h3 = h3
    t1 = t1
    t2 = t2
    e1 = e1
    Handlers = {h1, h2, h3}
    Emitters = {e1}
    Types = {t1, t2}
    Wants <- Wanted
    Emits <- Emitted
    OneShots = {h2}
    MaxSwitches = 1
SPECIFICATION Spec
INVARIANTS
    Reaches
    CallsOnce
CHECK_DEADLOCK FALSE
