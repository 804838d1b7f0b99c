CONSTANTS
    Entities = {e1, e2}
    Notifications = {n1}
    NoEvent = NoEvent
    Subscriptions = {s1, s2}
    EventCount = 3
    Requests <- MCAnyRequest
    IsrBound = 1
SPECIFICATION FairSpec
INVARIANTS TypeOK SubscriptionsSound NeverEarly
PROPERTY AllResponsesArrive
