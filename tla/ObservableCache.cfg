\* A reader and a subscriber behind a channel of one slot.
SPECIFICATION FairSpec
CONSTANTS
    Readers = {r1}
    Subscribers = {s1}
    Free = Free
    Capacity = 1
    MaxVersion = 3
INVARIANTS
PROPERTIES
    FilledOnce
    ImplementsFreshCache
    SubscriberCatchesUp
    CallReturns
