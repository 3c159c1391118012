SPECIFICATION Spec
CONSTANTS
    Interp = {main}
    Sender = {s1, s2}
    EventThread = event
    ListSize = 3
    PickupMax = 2
    MaxSends = 2
    Failing = {s2}
    Null = Null
    Solo = FALSE
INVARIANTS
    AwaitGetsOwn
