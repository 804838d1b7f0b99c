CONSTANTS
    NoId = NoId
    NoEvent = NoEvent
    Slots = {s1, s2, s3}
    Entities = {e1, e2}
    CookieMod = 8
    CookieBound = 2
    IsrRequests <- MCNoRequest
    LightRequests <- MCNoRequest
SPECIFICATION Spec
SYMMETRY MCSymmetry
VIEW MCView
INVARIANTS TypeOK OneOwner DelayedListsSound CookieIdentifies AnswerReachesRequester
PROPERTY ImplementsEvents
