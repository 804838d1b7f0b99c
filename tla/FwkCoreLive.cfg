CONSTANTS
    NoId = NoId
    NoEvent = NoEvent
    Slots = {s1, s2, s3}
    Entities = {e1}
    CookieMod = 8
    CookieBound = 3
    IsrRequests <- MCNoRequest
    LightRequests <- MCNone
SPECIFICATION FairSpec
PROPERTY EventsDelivered
